---- MODULE Spec2Model ----
(***************************************************************************)
(* Model of the scope analyzer (package analyzer): the introspection model *)
(* an Analyzer builds over a repository (pkgs, docPkgs, files,             *)
(* initialized), its query operations (LookupType, ListMethods,            *)
(* SearchTypes, GetExample, AnalyzeRepository, GetPackageInfo), its        *)
(* rebuild (Refresh) and Close, and the sync.RWMutex that guards them.     *)
(*                                                                         *)
(* Identifiers are sequences of one-character strings, so that Go's       *)
(* byte-wise string order, strings.ToLower and strings.Contains are        *)
(* computed rather than assumed.  Package names, type strings, tags and    *)
(* signatures are only ever compared for equality and stay TLA+ strings.   *)
(***************************************************************************)
EXTENDS Integers, Sequences, FiniteSets, TLC

\* ------------------------------------------------------------------------
\* Bounds of the model
\* ------------------------------------------------------------------------

\* number of goroutines that call LookupType concurrently with Refresh
NumReaders == 2

\* number of Refresh() calls the rebuilding goroutine issues
MaxRefreshes == 2

\* number of goroutines that serve handler calls concurrently
NumHandlers == 2

\* ------------------------------------------------------------------------
\* Go strings
\* ------------------------------------------------------------------------

Upper == <<"A","B","C","D","E","F","G","H","I","J","K","L","M",
           "N","O","P","Q","R","S","T","U","V","W","X","Y","Z">>

Lower == <<"a","b","c","d","e","f","g","h","i","j","k","l","m",
           "n","o","p","q","r","s","t","u","v","w","x","y","z">>

Digits == <<"0","1","2","3","4","5","6","7","8","9">>

IsUpper(c) == \E i \in 1..Len(Upper) : Upper[i] = c

IsDigit(c) == \E i \in 1..Len(Digits) : Digits[i] = c

\* the byte value of a character of an identifier: a letter, a digit or '_'
Ord(c) ==
    IF IsUpper(c)
    THEN 64 + (CHOOSE i \in 1..Len(Upper) : Upper[i] = c)
    ELSE IF IsDigit(c)
    THEN 47 + (CHOOSE i \in 1..Len(Digits) : Digits[i] = c)
    ELSE IF c = "_"
    THEN 95
    ELSE 96 + (CHOOSE i \in 1..Len(Lower) : Lower[i] = c)

\* Go's s < t on strings: byte-wise lexicographic, a proper prefix is smaller
RECURSIVE StrLess(_, _)
StrLess(s, t) ==
    IF t = <<>> THEN FALSE
    ELSE IF s = <<>> THEN TRUE
    ELSE IF Ord(Head(s)) # Ord(Head(t)) THEN Ord(Head(s)) < Ord(Head(t))
    ELSE StrLess(Tail(s), Tail(t))

ToLowerChar(c) ==
    IF IsUpper(c) THEN Lower[CHOOSE i \in 1..Len(Upper) : Upper[i] = c] ELSE c

\* strings.ToLower
ToLower(s) == [i \in 1..Len(s) |-> ToLowerChar(s[i])]

\* strings.Contains
Contains(s, sub) ==
    \E i \in 0..(Len(s) - Len(sub)) : SubSeq(s, i + 1, i + Len(sub)) = sub

\* token.IsExported / Object.Exported: the first character is upper case
IsExported(name) == name # <<>> /\ IsUpper(name[1])

\* ------------------------------------------------------------------------
\* Identifiers that occur in the repositories and in the queries
\* ------------------------------------------------------------------------

nCircle      == <<"C","i","r","c","l","e">>
nNames       == <<"N","a","m","e","s">>
nNewCircle   == <<"N","e","w","C","i","r","c","l","e">>
nPi          == <<"P","i">>
nShape       == <<"S","h","a","p","e">>
nUnit        == <<"U","n","i","t">>
nConfig      == <<"C","o","n","f","i","g">>
nMode        == <<"M","o","d","e">>
nUserAccount == <<"U","s","e","r","A","c","c","o","u","n","t">>
nMain        == <<"m","a","i","n">>
nZed         == <<"Z","e","d">>

nArea        == <<"A","r","e","a">>
nLowerArea   == <<"a","r","e","a">>
nString      == <<"S","t","r","i","n","g">>
nPerimeter   == <<"P","e","r","i","m","e","t","e","r">>
nLen         == <<"L","e","n">>
nLoad        == <<"L","o","a","d">>
nSet         == <<"S","e","t">>

nRadius      == <<"R","a","d","i","u","s">>
nLowerName   == <<"n","a","m","e">>
nPath        == <<"P","a","t","h">>
nID          == <<"I","D">>
nDebug       == <<"D","e","b","u","g">>
nLevel       == <<"L","e","v","e","l">>

\* the names the callers ask for: every declared name and one that is absent
TypeNames == {nCircle, nNames, nNewCircle, nPi, nShape, nUnit,
              nConfig, nMode, nUserAccount, nMain, nZed}

\* the queries the callers search for
Queries == {<<>>, <<"c">>, <<"C","O","N">>, <<"u","s","e","r">>,
            <<"A","C","C","O","U","N","T">>, <<"x","y","z">>}

\* ------------------------------------------------------------------------
\* What the go/types front end resolves for a repository
\* ------------------------------------------------------------------------

\* one field of a types.Struct
Fld(name, type, tag, embedded, line) ==
    [name |-> name, type |-> type, tag |-> tag, embedded |-> embedded, line |-> line]

\* one types.Selection of a types.MethodSet
Sel(name, indirect, sig, recv, line) ==
    [name |-> name, indirect |-> indirect, sig |-> sig, recv |-> recv, line |-> line]

\* one object of a package scope: cat is the object's class (TypeName, Func,
\* Var, Const), under the class of obj.Type().Underlying(), isPtr whether
\* obj.Type() is itself a pointer type, typ the rendering of obj.Type(), val a
\* constant's value, basic the name of the underlying basic type ("" when it
\* is not basic), vmset the method set of obj.Type() and pmset the method
\* set of a pointer to it
TypeObj(name, under, fields, imethods, vmset, pmset, line) ==
    [name |-> name, cat |-> "type", under |-> under, isPtr |-> FALSE,
     typ |-> "", val |-> "", basic |-> "", fields |-> fields, imethods |-> imethods,
     vmset |-> vmset, pmset |-> pmset, line |-> line]

FuncObj(name, sig, line) ==
    [name |-> name, cat |-> "func", under |-> "signature", isPtr |-> FALSE,
     typ |-> sig, val |-> "", basic |-> "", fields |-> <<>>, imethods |-> <<>>,
     vmset |-> <<>>, pmset |-> <<>>, line |-> line]

VarObj(name, typ, under, isPtr, vmset, pmset, line) ==
    [name |-> name, cat |-> "var", under |-> under, isPtr |-> isPtr,
     typ |-> typ, val |-> "", basic |-> "", fields |-> <<>>, imethods |-> <<>>,
     vmset |-> vmset, pmset |-> pmset, line |-> line]

ConstObj(name, typ, val, line) ==
    [name |-> name, cat |-> "const", under |-> "basic", isPtr |-> FALSE,
     typ |-> typ, val |-> val, basic |-> typ, fields |-> <<>>, imethods |-> <<>>,
     vmset |-> <<>>, pmset |-> <<>>, line |-> line]

\* Scope.Lookup found nothing
NilObj == [cat |-> "nil"]

\* a Go map with no entries
EmptyMap == [k \in {} |-> 0]

selArea      == Sel(nArea, TRUE, "func() float64", "*shapes.Circle", 10)
selString    == Sel(nString, FALSE, "func() string", "shapes.Circle", 11)
selLowerArea == Sel(nLowerArea, FALSE, "func() float64", "shapes.Circle", 12)

\* package shapes (shapes.go)
\*    3  const Pi = 3.14
\*    5  type Circle struct {
\*    6      Radius float64
\*    7      name   string `json:"n"`
\*       }
\*   10  func (c *Circle) Area() float64
\*   11  func (c Circle) String() string
\*   12  func (c Circle) area() float64
\*   14  type Shape interface {
\*   15      Area() float64
\*   16      Perimeter() float64
\*       }
\*   18  type Names []string
\*   19  func (n Names) Len() int
\*   21  func NewCircle() *Circle
\*   23  var Unit *Circle
\*   25  type UserAccount struct {
\*   26      ID int
\*   27      *Circle
\*       }
ShapesScope ==
    << TypeObj(nCircle, "struct",
           << Fld(nRadius, "float64", "", FALSE, 6),
              Fld(nLowerName, "string", "json:\"n\"", FALSE, 7) >>,
           <<>>,
           << selString, selLowerArea >>,
           << selArea, [selString EXCEPT !.indirect = TRUE],
              [selLowerArea EXCEPT !.indirect = TRUE] >>,
           5),
       TypeObj(nNames, "slice", <<>>, <<>>,
           << Sel(nLen, FALSE, "func() int", "shapes.Names", 19) >>,
           << Sel(nLen, TRUE, "func() int", "shapes.Names", 19) >>,
           18),
       FuncObj(nNewCircle, "func() *shapes.Circle", 21),
       ConstObj(nPi, "untyped float", "3.14", 3),
       TypeObj(nShape, "interface", <<>>,
           << Sel(nArea, FALSE, "func() float64", "", 15),
              Sel(nPerimeter, FALSE, "func() float64", "", 16) >>,
           << Sel(nArea, TRUE, "func() float64", "shapes.Shape", 15),
              Sel(nPerimeter, TRUE, "func() float64", "shapes.Shape", 16) >>,
           <<>>,
           14),
       VarObj(nUnit, "*shapes.Circle", "pointer", TRUE,
           << selArea, [selString EXCEPT !.indirect = TRUE],
              [selLowerArea EXCEPT !.indirect = TRUE] >>,
           <<>>,
           23),
       TypeObj(nUserAccount, "struct",
           << Fld(nID, "int", "", FALSE, 26),
              Fld(nCircle, "*shapes.Circle", "", TRUE, 27) >>,
           <<>>,
           << selArea, [selString EXCEPT !.indirect = TRUE],
              [selLowerArea EXCEPT !.indirect = TRUE] >>,
           << selArea, [selString EXCEPT !.indirect = TRUE],
              [selLowerArea EXCEPT !.indirect = TRUE] >>,
           25) >>

selLoad == Sel(nLoad, FALSE, "func() error", "config.Config", 6)

\* package config (config/config.go)
\*    3  type Config struct {
\*    4      Path string
\*       }
\*    6  func (c Config) Load() error
\*    8  type Mode int
\*    9  func (m Mode) String() string
ConfigScope ==
    << TypeObj(nConfig, "struct",
           << Fld(nPath, "string", "", FALSE, 4) >>,
           <<>>,
           << selLoad >>,
           << [selLoad EXCEPT !.indirect = TRUE] >>,
           3),
       [TypeObj(nMode, "basic", <<>>, <<>>,
           << Sel(nString, FALSE, "func() string", "config.Mode", 9) >>,
           << Sel(nString, TRUE, "func() string", "config.Mode", 9) >>,
           8) EXCEPT !.basic = "int"] >>

\* package main (main.go)
\*    3  type Config struct {
\*    4      Debug bool
\*    5      Level int
\*       }
\*    8  func (c *Config) Set(level int)
\*   10  const Mode = 1
\*   12  func main() {}
MainScope ==
    << TypeObj(nConfig, "struct",
           << Fld(nDebug, "bool", "", FALSE, 4),
              Fld(nLevel, "int", "", FALSE, 5) >>,
           <<>>,
           <<>>,
           << Sel(nSet, TRUE, "func(level int)", "*main.Config", 8) >>,
           3),
       ConstObj(nMode, "untyped int", "1", 10),
       FuncObj(nMain, "func()", 12) >>

\* A repository on disk, as the front end resolves it: the scope of every
\* package that type-checks and the files of each.
\*   shapes   one package (a pointer-receiver method, an interface, a slice,
\*            an embedded field)
\*   twopkgs  two packages that both declare Config and Mode
\*   empty    a directory with no Go file
RepoIds == {"shapes", "twopkgs", "empty"}

RepoPkgs(r) ==
    CASE r = "shapes"  -> [p \in {"shapes"} |-> ShapesScope]
      [] r = "twopkgs" -> [p \in {"config", "main"} |->
                              IF p = "config" THEN ConfigScope ELSE MainScope]
      [] OTHER         -> EmptyMap

RepoFiles(r) ==
    CASE r = "shapes"  -> [p \in {"shapes"} |-> << "shapes.go" >>]
      [] r = "twopkgs" -> [p \in {"config", "main"} |->
                              IF p = "config" THEN << "config/config.go" >>
                              ELSE << "main.go" >>]
      [] OTHER         -> EmptyMap

\* the repository path does not exist (any more): filepath.Walk fails
Missing == "missing"

DiskStates == RepoIds \cup {Missing}

\* ------------------------------------------------------------------------
\* The Analyzer's state
\* ------------------------------------------------------------------------

VARIABLES
    disk,         \* the repository at a.repoPath as it is on disk now
    pkgs,         \* a.pkgs: package name -> scope (objects in Scope.Names() order)
    docPkgs,      \* a.docPkgs: package name -> doc.Package
    files,        \* a.files: package name -> file names
    initialized,  \* a.initialized
    call,         \* the operation that returned last: its name, argument, result
    prev,         \* the LookupType that returned right before it, if any
    pc,           \* concurrent runs: where each goroutine is in its call
    rw,           \* a.mu: the read holders, the blocked readers, the writer
    rd,           \* what each LookupType goroutine has read so far
    gen,          \* the model's generation: odd while a Refresh rebuilds it
    refreshes,    \* the number of Refresh() calls issued concurrently
    cache,        \* cacheInstance.data: key -> cacheEntry
    now,          \* time.Now(), in days
    hd,           \* each handler goroutine: where it is in its call
    setErr,       \* what the last operation's Cache.Set returned, "none" if
                  \* it called no Set
    tools,        \* tm.tools: tool name -> the Tool registered under it
    heap,         \* the Tools NewTool has made: heap[i] is the config of Tool i
    tmu,          \* t.mu of each Tool: the goroutine holding it, 0 if free
    ex,           \* each Execute goroutine: where it is, its Tool, its result
    mret,         \* what the tool manager's operation that returned last gave
    nest          \* each SearchTypes / AnalyzeRepository goroutine: the
                  \* operation it runs and the LookupType calls it has left

modelVars == <<pkgs, docPkgs, files, initialized>>
callVars  == <<call, prev>>
concVars  == <<pc, rw, rd, gen, refreshes, nest>>
cacheVars == <<cache, now, setErr, hd>>
toolVars  == <<tools, heap, tmu, ex, mret>>
vars      == <<disk, pkgs, docPkgs, files, initialized, call, prev,
               pc, rw, rd, gen, refreshes, cache, now, setErr, hd,
               tools, heap, tmu, ex, mret, nest>>

\* the receiver a: the fields the operations read
Analyzer == [pkgs |-> pkgs, docPkgs |-> docPkgs, files |-> files,
             initialized |-> initialized]

\* a returned (value, error) pair; errors are told apart by their kind
Ok(v)  == [err |-> "nil", val |-> v]
Err(e) == [err |-> e, val |-> <<>>]

\* a call that panics does not return: its outcome is recorded as this error
ErrPanic          == "panic: assertion failed"
ErrNotInitialized == "analyzer not initialized"
ErrNotFound       == "not found"
ErrNoExamples     == "no examples found"
ErrParse          == "failed to parse repository"

\* ------------------------------------------------------------------------
\* Iterating a Go map
\* ------------------------------------------------------------------------

\* every order in which one `for k := range m` may visit the keys of m: Go
\* picks the order anew for every range statement
RangeOrders(m) ==
    LET n == Cardinality(DOMAIN m)
    IN  {o \in [1..n -> DOMAIN m] : \A i, j \in 1..n : i # j => o[i] # o[j]}

\* ------------------------------------------------------------------------
\* Descriptors
\* ------------------------------------------------------------------------

\* pkg.Scope().Lookup(name)
ScopeLookup(scope, name) ==
    IF \E i \in 1..Len(scope) : scope[i].name = name
    THEN scope[CHOOSE i \in 1..Len(scope) : scope[i].name = name]
    ELSE NilObj

\* a variant that expands embedding away: the embedded fields are dropped
AnalyzeStructFieldsSkipEmbedded(fields) ==
    LET kept == SelectSeq(fields, LAMBDA f : ~f.embedded)
    IN  [i \in 1..Len(kept) |->
            [Name |-> kept[i].name, Type |-> kept[i].type, Tag |-> kept[i].tag,
             Exported |-> IsExported(kept[i].name), Embedded |-> FALSE,
             Line |-> kept[i].line]]

\* analyzeStructFields: one FieldInfo per field of the struct, in order
AnalyzeStructFields(fields) ==
    [i \in 1..Len(fields) |->
        [Name |-> fields[i].name, Type |-> fields[i].type, Tag |-> fields[i].tag,
         Exported |-> IsExported(fields[i].name), Embedded |-> fields[i].embedded,
         Line |-> fields[i].line]]

\* analyzeInterfaceMethods: one MethodInfo per explicitly declared method
AnalyzeInterfaceMethods(imethods) ==
    [i \in 1..Len(imethods) |->
        [Name |-> imethods[i].name, Signature |-> imethods[i].sig,
         Receiver |-> "", Exported |-> IsExported(imethods[i].name),
         IsPointer |-> FALSE, Line |-> imethods[i].line]]

\* the MethodInfo getTypeMethods builds for one selection
MethodInfoOf(sel, isPointer) ==
    [Name |-> sel.name, Signature |-> sel.sig, Receiver |-> sel.recv,
     Exported |-> IsExported(sel.name), IsPointer |-> isPointer, Line |-> sel.line]

\* a first loop that never reports a method as reached through a pointer
ValueMethodsNeverIndirect(vmset) ==
    [i \in 1..Len(vmset) |-> MethodInfoOf(vmset[i], FALSE)]

\* getTypeMethods, first loop: the method set of the type itself
ValueMethods(vmset) ==
    [i \in 1..Len(vmset) |-> MethodInfoOf(vmset[i], vmset[i].indirect)]

\* getTypeMethods: "Skip if we already have this method"
HasMethod(methods, name) ==
    \E i \in 1..Len(methods) : methods[i].Name = name

\* a variant of the second loop that never skips
RECURSIVE AppendPointerMethodsNoSkip(_, _)
AppendPointerMethodsNoSkip(methods, pmset) ==
    IF pmset = <<>> THEN methods
    ELSE AppendPointerMethodsNoSkip(
             Append(methods, MethodInfoOf(Head(pmset), TRUE)), Tail(pmset))

\* getTypeMethods, second loop: the method set of the pointer type, appended
\* to methods unless a method of that name is there already
RECURSIVE AppendPointerMethods(_, _)
AppendPointerMethods(methods, pmset) ==
    IF pmset = <<>> THEN methods
    ELSE IF HasMethod(methods, Head(pmset).name)
         THEN AppendPointerMethods(methods, Tail(pmset))
         ELSE AppendPointerMethods(
                  Append(methods, MethodInfoOf(Head(pmset), TRUE)), Tail(pmset))

\* a variant that leaves the methods in the order they were appended
SortMethodsNoSort(methods) == methods

\* sort.Slice(methods, func(i, j) { return methods[i].Name < methods[j].Name }):
\* the methods in ascending order of name.  Entries of equal name keep their
\* order, as under the insertion sort sort.Slice runs on a short slice.
SortMethods(methods) ==
    LET n == Len(methods)
        Before(j, k) ==
            \/ StrLess(methods[j].Name, methods[k].Name)
            \/ (~StrLess(methods[k].Name, methods[j].Name) /\ j < k)
        Rank(k) == 1 + Cardinality({j \in 1..n : j # k /\ Before(j, k)})
    IN  [i \in 1..n |-> methods[CHOOSE k \in 1..n : Rank(k) = i]]

\* getTypeMethods(obj.Type())
GetTypeMethods(obj) ==
    LET first == ValueMethods(obj.vmset)
        both  == IF obj.isPtr THEN first
                 ELSE AppendPointerMethods(first, obj.pmset)
    IN  SortMethods(both)

\* LookupType's switch on obj.Type().Underlying()
KindOf(under) ==
    CASE under = "struct"    -> "struct"
      [] under = "interface" -> "interface"
      [] under = "slice"     -> "slice"
      [] under = "array"     -> "array"
      [] under = "map"       -> "map"
      [] under = "chan"      -> "channel"
      [] under = "pointer"   -> "pointer"
      [] under = "signature" -> "function"
      [] OTHER               -> "other"

\* LookupType: the Doc of the doc.Type of that name, if docPkgs has one
DocOfType(dp, pkgName, typeName) ==
    IF pkgName \in DOMAIN dp
       /\ \E i \in 1..Len(dp[pkgName].Types) : dp[pkgName].Types[i].Name = typeName
    THEN LET ts == dp[pkgName].Types
         IN  ts[CHOOSE i \in 1..Len(ts) :
                    /\ ts[i].Name = typeName
                    /\ \A j \in 1..(i - 1) : ts[j].Name # typeName].Doc
    ELSE ""

\* the word of the gc compiler on amd64
WordSize == 8

\* the basic types of go/types that have no size: those of untyped constants
UntypedBasics == {"untyped bool", "untyped int", "untyped rune",
                  "untyped float", "untyped string", "untyped nil"}

\* sizes.Sizeof of a type written t in a field list: a basic type by its
\* kind, a string two words, anything else in the repositories is a pointer
SizeofNamed(t) ==
    CASE t = "bool"                -> 1
      [] t \in {"int", "float64"}  -> WordSize
      [] t = "string"              -> 2 * WordSize
      [] OTHER                     -> WordSize

\* sizes.Alignof of the same: the size, at most one word
AlignofNamed(t) == IF SizeofNamed(t) > WordSize THEN WordSize ELSE SizeofNamed(t)

\* align(x, a): the smallest multiple of a that is >= x
AlignUp(x, a) == ((x + a - 1) \div a) * a

\* the offset after the last of the fields, each laid out at its alignment
RECURSIVE EndOffset(_, _)
EndOffset(fields, off) ==
    IF fields = <<>> THEN off
    ELSE EndOffset(Tail(fields),
                   AlignUp(off, AlignofNamed(Head(fields).type))
                       + SizeofNamed(Head(fields).type))

\* sizes.Alignof(obj.Type()): for a struct the largest of its fields', at
\* least 1
Alignof(obj) ==
    CASE obj.under = "struct" ->
             LET as == {AlignofNamed(obj.fields[i].type) : i \in DOMAIN obj.fields}
             IN  IF as = {} THEN 1 ELSE CHOOSE m \in as : \A x \in as : x <= m
      [] obj.under = "basic"  -> AlignofNamed(obj.basic)
      [] OTHER                -> WordSize

\* sizes.Sizeof(obj.Type()): a slice is three words, an interface two, a
\* pointer or a function one, a struct the end of its fields rounded up to
\* its alignment
Sizeof(obj) ==
    CASE obj.under = "struct"    -> AlignUp(EndOffset(obj.fields, 0), Alignof(obj))
      [] obj.under = "basic"     -> SizeofNamed(obj.basic)
      [] obj.under = "slice"     -> 3 * WordSize
      [] obj.under = "interface" -> 2 * WordSize
      [] OTHER                   -> WordSize

\* LookupType, the body of its loop once Lookup has found obj in pkgName:
\* the descriptor it returns, or the panic of sizes.Sizeof, which asserts
\* that a basic type is typed
\* sizes.Sizeof(obj.Type()) panics: go/types asserts that a basic type is
\* typed, and the type of an untyped constant is not
SizeofPanics(obj) == obj.under = "basic" /\ obj.basic \in UntypedBasics

DescribeObject(a, pkgName, typeName, obj) ==
    LET switched ==
            [Name |-> typeName, Package |-> pkgName, ImportPath |-> pkgName,
             Exported |-> IsExported(obj.name), Line |-> obj.line,
             Doc |-> DocOfType(a.docPkgs, pkgName, typeName),
             Kind |-> KindOf(obj.under),
             Fields |-> IF obj.under = "struct"
                        THEN AnalyzeStructFields(obj.fields) ELSE <<>>,
             Methods |-> IF obj.under = "interface"
                         THEN AnalyzeInterfaceMethods(obj.imethods) ELSE <<>>,
             Size |-> 0, Alignment |-> 0]
        withMethods == [switched EXCEPT !.Methods = GetTypeMethods(obj)]
    IN  IF SizeofPanics(obj)
        THEN Err(ErrPanic)
        ELSE Ok([withMethods EXCEPT !.Size = Sizeof(obj),
                                    !.Alignment = Alignof(obj)])

\* LookupType's loop over a.pkgs, visited in `order`: the first package
\* whose scope has an object called typeName, "" if the loop runs out
RECURSIVE FirstDeclaring(_, _, _)
FirstDeclaring(a, order, typeName) ==
    IF order = <<>> THEN ""
    ELSE IF ScopeLookup(a.pkgs[Head(order)], typeName).cat = "nil"
         THEN FirstDeclaring(a, Tail(order), typeName)
         ELSE Head(order)

\* LookupType after the initialized check: the descriptor of the object the
\* loop stops at, or the "type not found" error after the loop
LookupLoop(a, order, typeName) ==
    LET pkgName == FirstDeclaring(a, order, typeName)
    IN  IF pkgName = "" THEN Err(ErrNotFound)
        ELSE DescribeObject(a, pkgName, typeName,
                            ScopeLookup(a.pkgs[pkgName], typeName))

\* LookupType(typeName) panics when the range over a.pkgs visits them in
\* `order`: the object the loop stops at is an untyped constant
LookupPanics(a, order, typeName) ==
    /\ a.initialized
    /\ FirstDeclaring(a, order, typeName) # ""
    /\ SizeofPanics(ScopeLookup(a.pkgs[FirstDeclaring(a, order, typeName)],
                                 typeName))

\* LookupType(typeName) when the range over a.pkgs visits them in `order`
LookupType(a, order, typeName) ==
    IF ~a.initialized THEN Err(ErrNotInitialized)
    ELSE LookupLoop(a, order, typeName)

\* ListMethods(typeName)
ListMethods(a, order, typeName) ==
    LET r == LookupType(a, order, typeName)
    IN  IF r.err # "nil" THEN Err(r.err) ELSE Ok(r.val.Methods)

\* ------------------------------------------------------------------------
\* Whole-repository queries
\* ------------------------------------------------------------------------

\* the objects `for _, name := range scope.Names() { obj := scope.Lookup(name)`
\* visits in package pkgName, each with its package
ScopeVisits(a, pkgName) ==
    [i \in 1..Len(a.pkgs[pkgName]) |-> [pkg |-> pkgName, obj |-> a.pkgs[pkgName][i]]]

\* the objects the nested loops over a.pkgs and scope.Names() visit, in order
RECURSIVE Visits(_, _)
Visits(a, order) ==
    IF order = <<>> THEN <<>>
    ELSE ScopeVisits(a, Head(order)) \o Visits(a, Tail(order))

\* the number of TypeName objects in a.pkgs: the LookupType calls one
\* AnalyzeRepository makes when none of them panics
RECURSIVE CountTypes(_)
CountTypes(visits) ==
    IF visits = <<>> THEN 0
    ELSE (IF Head(visits).obj.cat = "type" THEN 1 ELSE 0) + CountTypes(Tail(visits))

\* the number of TypeName objects whose name contains query, ignoring case:
\* the LookupType calls one SearchTypes(query) makes when none of them panics
RECURSIVE CountMatches(_, _)
CountMatches(visits, query) ==
    IF visits = <<>> THEN 0
    ELSE (IF Head(visits).obj.cat = "type"
             /\ Contains(ToLower(Head(visits).obj.name), ToLower(query))
          THEN 1 ELSE 0) + CountMatches(Tail(visits), query)

\* the iteration orders one SearchTypes(query) may meet: one for its own
\* range over a.pkgs and one for every LookupType it calls
SearchOrderChoices(a, query) ==
    LET any == CHOOSE o \in RangeOrders(a.pkgs) : TRUE
    IN  [1..(CountMatches(Visits(a, any), query) + 1) -> RangeOrders(a.pkgs)]

\* the iteration orders one AnalyzeRepository may meet: one for its first
\* range over a.pkgs, one for every LookupType it calls, one for its second
\* range over a.pkgs
AnalyzeOrderChoices(a) ==
    LET any == CHOOSE o \in RangeOrders(a.pkgs) : TRUE
    IN  [1..(CountTypes(Visits(a, any)) + 2) -> RangeOrders(a.pkgs)]

\* SearchTypes' loops: visits are the objects left to visit, orders the
\* iteration orders the LookupType calls still to come will meet; an error
\* LookupType returns is dropped, a panic in it ends the call
RECURSIVE SearchLoop(_, _, _, _, _)
SearchLoop(a, visits, orders, query, results) ==
    IF visits = <<>> THEN Ok(results)
    ELSE LET obj == Head(visits).obj
         IN  IF obj.cat = "type" /\ Contains(ToLower(obj.name), query)
             THEN LET r == LookupType(a, Head(orders), obj.name)
                  IN  IF r.err = ErrPanic THEN Err(ErrPanic)
                      ELSE SearchLoop(a, Tail(visits), Tail(orders), query,
                                      IF r.err = "nil" THEN Append(results, r.val)
                                      ELSE results)
             ELSE SearchLoop(a, Tail(visits), orders, query, results)

\* SearchTypes(query): orders[1] is the order of its own range over a.pkgs
SearchTypes(a, orders, query) ==
    SearchLoop(a, Visits(a, orders[1]), Tail(orders), ToLower(query), <<>>)

\* analyzeFunctionObject
AnalyzeFunctionObject(obj, pkgName) ==
    [Name |-> obj.name, Package |-> pkgName, Exported |-> IsExported(obj.name),
     IsMethod |-> FALSE, Signature |-> obj.typ, Line |-> obj.line]

\* analyzeVariableObject
AnalyzeVariableObject(obj, pkgName) ==
    [Name |-> obj.name, Type |-> obj.typ, Package |-> pkgName,
     Exported |-> IsExported(obj.name), Line |-> obj.line]

\* analyzeConstantObject
AnalyzeConstantObject(obj, pkgName) ==
    [Name |-> obj.name, Type |-> obj.typ, Value |-> obj.val, Package |-> pkgName,
     Exported |-> IsExported(obj.name), Line |-> obj.line]

\* a PackageInfo that never marks the program's entry package
PackageInfoOfNeverMain(a, pkgName) ==
    [Name |-> pkgName, ImportPath |-> pkgName, IsMain |-> FALSE,
     Doc |-> IF pkgName \in DOMAIN a.docPkgs THEN a.docPkgs[pkgName].Doc ELSE "",
     Files |-> IF pkgName \in DOMAIN a.files THEN a.files[pkgName] ELSE <<>>]

\* the PackageInfo of package pkgName
PackageInfoOf(a, pkgName) ==
    [Name |-> pkgName, ImportPath |-> pkgName, IsMain |-> (pkgName = "main"),
     Doc |-> IF pkgName \in DOMAIN a.docPkgs THEN a.docPkgs[pkgName].Doc ELSE "",
     Files |-> IF pkgName \in DOMAIN a.files THEN a.files[pkgName] ELSE <<>>]

\* AnalyzeRepository, "Analyze types": the switch on the object's class; an
\* error LookupType returns is dropped, a panic in it ends the call
RECURSIVE AnalyzeLoop(_, _, _, _)
AnalyzeLoop(a, visits, orders, result) ==
    IF visits = <<>> THEN Ok(result)
    ELSE LET obj == Head(visits).obj
             pkg == Head(visits).pkg
         IN  CASE obj.cat = "type" ->
                    LET r == LookupType(a, Head(orders), obj.name)
                    IN  IF r.err = ErrPanic THEN Err(ErrPanic)
                        ELSE AnalyzeLoop(a, Tail(visits), Tail(orders),
                                 IF r.err = "nil"
                                 THEN [result EXCEPT !.Types = Append(@, r.val)]
                                 ELSE result)
               [] obj.cat = "func" ->
                    AnalyzeLoop(a, Tail(visits), orders,
                        [result EXCEPT !.Functions =
                            Append(@, AnalyzeFunctionObject(obj, pkg))])
               [] obj.cat = "var" ->
                    AnalyzeLoop(a, Tail(visits), orders,
                        [result EXCEPT !.Variables =
                            Append(@, AnalyzeVariableObject(obj, pkg))])
               [] obj.cat = "const" ->
                    AnalyzeLoop(a, Tail(visits), orders,
                        [result EXCEPT !.Constants =
                            Append(@, AnalyzeConstantObject(obj, pkg))])
               [] OTHER -> AnalyzeLoop(a, Tail(visits), orders, result)

\* an AnalyzeRepository that reports a repository without packages as an error
AnalyzeRepositoryRejectsEmpty(a, orders) ==
    IF ~a.initialized THEN Err(ErrNotInitialized)
    ELSE IF DOMAIN a.pkgs = {} THEN Err("no packages found")
    ELSE Ok([Types |-> <<>>, Functions |-> <<>>, Variables |-> <<>>,
             Constants |-> <<>>, Packages |-> <<>>, Errors |-> <<>>,
             Warnings |-> <<>>,
             Metrics |-> [TotalTypes |-> 0, TotalFunctions |-> 0,
                          TotalPackages |-> 0]])

\* AnalyzeRepository(ctx): orders[1] is the order of the first range over
\* a.pkgs, orders[Len(orders)] that of the second ("Analyze packages")
AnalyzeRepository(a, orders) ==
    IF ~a.initialized THEN Err(ErrNotInitialized)
    ELSE LET empty  == [Types |-> <<>>, Functions |-> <<>>, Variables |-> <<>>,
                        Constants |-> <<>>, Packages |-> <<>>, Errors |-> <<>>,
                        Warnings |-> <<>>,
                        Metrics |-> [TotalTypes |-> 0, TotalFunctions |-> 0,
                                     TotalPackages |-> 0]]
             loop   == AnalyzeLoop(a, Visits(a, orders[1]),
                                   SubSeq(orders, 2, Len(orders) - 1), empty)
             walked == loop.val
             second == orders[Len(orders)]
             infos  == [i \in 1..Len(second) |-> PackageInfoOf(a, second[i])]
         IN  IF loop.err = ErrPanic THEN Err(ErrPanic)
             ELSE Ok([walked EXCEPT
                        !.Packages = infos,
                        !.Metrics = [TotalTypes |-> Len(walked.Types),
                                     TotalFunctions |-> Len(walked.Functions),
                                     TotalPackages |-> Len(infos)]])

\* GetPackageInfo(packageName)
GetPackageInfo(a, packageName) ==
    IF packageName \notin DOMAIN a.pkgs THEN Err(ErrNotFound)
    ELSE Ok(PackageInfoOf(a, packageName))

\* the examples of the entries (doc types, doc funcs or package examples)
\* whose name contains topic, ignoring case
RECURSIVE ExamplesOf(_, _)
ExamplesOf(entries, topic) ==
    IF entries = <<>> THEN <<>>
    ELSE (IF Contains(ToLower(Head(entries).Name), ToLower(topic))
          THEN Head(entries).Examples ELSE <<>>)
         \o ExamplesOf(Tail(entries), topic)

\* GetExample's loop over a.docPkgs, visited in `order`
RECURSIVE ExampleLoop(_, _, _)
ExampleLoop(a, order, topic) ==
    IF order = <<>> THEN <<>>
    ELSE ExamplesOf(a.docPkgs[Head(order)].Types, topic)
         \o ExamplesOf(a.docPkgs[Head(order)].Funcs, topic)
         \o ExamplesOf(a.docPkgs[Head(order)].Examples, topic)
         \o ExampleLoop(a, Tail(order), topic)

\* GetExample(topic): the examples found, which the code joins with blank lines
GetExample(a, order, topic) ==
    LET examples == ExampleLoop(a, order, topic)
    IN  IF examples = <<>> THEN Err(ErrNoExamples) ELSE Ok(examples)

\* ------------------------------------------------------------------------
\* Building the model
\* ------------------------------------------------------------------------

\* m with the entries of more added or replaced
MapMerge(m, more) ==
    [k \in DOMAIN m \cup DOMAIN more |-> IF k \in DOMAIN more THEN more[k] ELSE m[k]]

\* parseRepository and typeCheckPackages: walk the repository d and enter
\* every package that type-checks in a.pkgs and a.files
ParseRepository(a, d) ==
    IF d = Missing THEN [a |-> a, err |-> ErrParse]
    ELSE [a |-> [a EXCEPT !.pkgs = MapMerge(a.pkgs, RepoPkgs(d)),
                          !.files = MapMerge(a.files, RepoFiles(d))],
          err |-> "nil"]

\* the doc.Type or doc.Func entries generateDocumentation makes of a scope
DocEntries(scope, cat) ==
    LET objs == SelectSeq(scope, LAMBDA o : o.cat = cat)
    IN  [i \in 1..Len(objs) |-> [Name |-> objs[i].name, Doc |-> "", Examples |-> <<>>]]

\* generateDocumentation: a doc.Package per package of a.pkgs, holding the
\* names of its types and functions and nothing else
GenerateDocumentation(a) ==
    [a EXCEPT !.docPkgs =
        MapMerge(a.docPkgs,
                 [p \in DOMAIN a.pkgs |->
                     [Name |-> p, Doc |-> "",
                      Types |-> DocEntries(a.pkgs[p], "type"),
                      Funcs |-> DocEntries(a.pkgs[p], "func"),
                      Examples |-> <<>>]])]

\* initialize
Initialize(a, d) ==
    LET parsed == ParseRepository(a, d)
    IN  IF parsed.err # "nil" THEN parsed
        ELSE [a |-> [GenerateDocumentation(parsed.a) EXCEPT !.initialized = TRUE],
              err |-> "nil"]

\* a Refresh that leaves a.initialized as it was while it clears the maps
TeardownKeepsInitialized(a) ==
    [a EXCEPT !.pkgs = EmptyMap, !.docPkgs = EmptyMap, !.files = EmptyMap]

\* Refresh, "Clear existing data"
Teardown(a) ==
    [a EXCEPT !.pkgs = EmptyMap, !.docPkgs = EmptyMap, !.files = EmptyMap,
              !.initialized = FALSE]

\* a Refresh that refuses to rebuild a model that was closed
RefreshUnlessClosed(a, d) ==
    IF ~a.initialized THEN [a |-> Teardown(a), err |-> "analyzer closed"]
    ELSE Initialize(Teardown(a), d)

\* Refresh
Refresh(a, d) == Initialize(Teardown(a), d)

\* a Close that flips a.initialized
CloseToggles(a) == [a EXCEPT !.initialized = ~@]

\* Close
Close(a) == [a EXCEPT !.initialized = FALSE]

\* NewAnalyzerWithConfig on an existing repository path
NewAnalyzer(d) ==
    Initialize([pkgs |-> EmptyMap, docPkgs |-> EmptyMap, files |-> EmptyMap,
                initialized |-> FALSE], d)

\* ------------------------------------------------------------------------
\* Tools (tools.Tool, tools.ToolManager) and the external commands they run
\* ------------------------------------------------------------------------

\* the goroutines that call Tool.Execute
NumExecutors == 2

\* the Tools NewTool makes in one run
MaxTools == 2

\* the Tools the concurrent callers of Execute share
MaxShared == 1

Executors == 1..NumExecutors

\* a ToolConfig
ToolConfig(name, command, args, env, timeout) ==
    [Name |-> name, Command |-> command, Args |-> args, Env |-> env,
     Timeout |-> timeout]

\* a ToolConfig.Env with one variable
OneVar(k, v) == [n \in {k} |-> v]

\* the configurations registered: two of the same name, one whose command
\* does not exist, one whose command runs longer than its timeout
ToolConfigs ==
    {ToolConfig("echo_test", "echo", <<"test">>, EmptyMap, 5),
     ToolConfig("echo_test", "echo", <<"again">>, EmptyMap, 0),
     ToolConfig("invalid_test", "non_existent_command", <<"test">>, EmptyMap, 5),
     ToolConfig("sleep_test", "sleep", <<"60">>, EmptyMap, 5)}

ToolNames == {"echo_test", "invalid_test", "sleep_test", "non_existent"}

\* the input string the concurrent callers hand to Execute
TestInput == ""

\* the input strings the handlers hand to Execute: a query, changes, and a
\* file with its changes
ExecInputs == {TestInput, "query", "main.go\n+ line"}

\* the configurations of the Tools the concurrent callers execute: an echo,
\* a command that does not exist, a command that runs longer than its
\* timeout, a command that never ends under a configuration without a
\* timeout, and a shell that ends at once and leaves a process that never
\* ends in the background
ExecConfigs ==
    {ToolConfig("echo_test", "echo", <<"test">>, OneVar("MODE", "test"), 5),
     ToolConfig("invalid_test", "non_existent_command", <<"test">>, EmptyMap, 5),
     ToolConfig("sleep_test", "sleep", <<"60">>, EmptyMap, 5),
     ToolConfig("wait_test", "sleep", <<"infinity">>, EmptyMap, 0),
     ToolConfig("orphan_test", "sh", <<"-c", "sleep infinity &">>, EmptyMap, 5)}

\* further configurations: a shell that prints a variable of its environment,
\* a command that ends before its timeout, an echo of two words, and a
\* command that ends with a non-zero exit status
MoreConfigs ==
    {ToolConfig("env_test", "sh", <<"-c", "echo $TEST_VAR">>,
                OneVar("TEST_VAR", "test_value"), 5),
     ToolConfig("nap_test", "sleep", <<"2">>, EmptyMap, 5),
     ToolConfig("words_test", "echo", <<"hello", "world">>, EmptyMap, 5),
     ToolConfig("fail_test", "sh", <<"-c", "exit 1">>, EmptyMap, 5)}

\* the longest sleep, in seconds, a configuration asks for
MaxSeconds == 60

\* strconv-style decimal rendering of a natural number
Digit(d) ==
    CASE d = 0 -> "0" [] d = 1 -> "1" [] d = 2 -> "2" [] d = 3 -> "3"
      [] d = 4 -> "4" [] d = 5 -> "5" [] d = 6 -> "6" [] d = 7 -> "7"
      [] d = 8 -> "8" [] d = 9 -> "9"

RECURSIVE Decimal(_)
Decimal(n) == IF n < 10 THEN Digit(n) ELSE Decimal(n \div 10) \o Digit(n % 10)

\* the number sleep reads from its argument: the n whose decimal form the
\* argument is, -1 when it is no such number
ParseSeconds(arg) ==
    IF \E n \in 0..MaxSeconds : Decimal(n) = arg
    THEN CHOOSE n \in 0..MaxSeconds : Decimal(n) = arg
    ELSE -1

\* the words of a command line joined by single spaces, as echo prints them
RECURSIVE JoinWords(_)
JoinWords(args) ==
    IF args = <<>> THEN ""
    ELSE IF Len(args) = 1 THEN args[1]
    ELSE args[1] \o " " \o JoinWords(Tail(args))

\* the environment variables the scripts of the configurations expand
VarNames == {"TEST_VAR", "MODE"}

\* the value $name expands to in the command: cmd.Env is the configuration's
\* Env when that has entries; with none the command inherits the server's
\* environment, which sets none of these variables
Expand(config, name) ==
    IF name \in DOMAIN config.Env THEN config.Env[name] ELSE ""

\* the command is `sh -c script`
IsScript(config, script) ==
    config.Command = "sh" /\ config.Args = <<"-c", script>>

\* the external command: whether it can be started (exec.LookPath finds it),
\* whether it ends by itself, the seconds it then runs, its exit status and
\* what it prints
CanStart(config) == config.Command # "non_existent_command"

Ends(config) == ~(config.Command = "sleep" /\ config.Args = <<"infinity">>)

RunSeconds(config) ==
    IF config.Command = "sleep" /\ Len(config.Args) = 1
          /\ ParseSeconds(config.Args[1]) >= 0
    THEN ParseSeconds(config.Args[1])
    ELSE 0

ExitStatus(config) ==
    CASE config.Command = "sleep" ->
             IF Len(config.Args) = 1
                /\ (ParseSeconds(config.Args[1]) >= 0 \/ ~Ends(config))
             THEN 0 ELSE 1
      [] IsScript(config, "exit 1") -> 1
      [] OTHER -> 0

Printed(config) ==
    CASE config.Command = "echo" -> JoinWords(config.Args) \o "\n"
      [] \E k \in VarNames : IsScript(config, "echo $" \o k) ->
             Expand(config, CHOOSE k \in VarNames :
                                IsScript(config, "echo $" \o k)) \o "\n"
      [] OTHER -> ""

\* the command leaves a process behind that never ends and holds the
\* command's output open: the shell started it in the background
Orphans(config) == IsScript(config, "sleep infinity &")

\* the process Execute started goes away: it ends by itself, or the deadline
\* of a positive Timeout kills it (exec.CommandContext kills that process
\* only, none of the processes it started)
Exits(config) == Ends(config) \/ config.Timeout > 0

\* the copy of the command's output into the buffer of CombinedOutput
\* reaches the end once no process holds the output open; cmd.WaitDelay is
\* not set, so cmd.Wait waits for that however long it takes
OutputCloses(config) == ~Orphans(config)

\* cmd.CombinedOutput() returns: the command could not be started, or its
\* process has gone and its output has come to the end
Returns(config) ==
    ~CanStart(config) \/ (Exits(config) /\ OutputCloses(config))

ErrExec == "tool execution failed"

\* what Execute returns: (output, nil) or ("", error)
Output(out) == [err |-> "nil", val |-> out]
Failed(e)   == [err |-> e, val |-> ""]

\* what a manager operation returned: the Tool and ok of GetTool, the names
\* of ListTools
ManagerReturn(op, name, tool, ok, names) ==
    [op |-> op, name |-> name, tool |-> tool, ok |-> ok, names |-> names]
NoManaged == ManagerReturn("none", "", 0, FALSE, <<>>)

\* an Execute goroutine that is in no call and has returned nothing yet
NoReturn == [err |-> "none", val |-> ""]
Resting  == [pc |-> "idle", tool |-> 0, input |-> "", ret |-> NoReturn]

\* ------------------------------------------------------------------------
\* The state after construction
\* ------------------------------------------------------------------------

\* the handler goroutines of the MCP server
Handlers == 1..NumHandlers

\* a handler goroutine that is in no call
NoHandler == [pc |-> "idle", op |-> "none", name |-> <<>>, val |-> <<>>]

Writer  == 0
Readers == 1..NumReaders
Procs   == {Writer} \cup Readers

NoCall == [op |-> "none", arg |-> <<>>, err |-> "nil", val |-> <<>>]

Returned(op, arg, r) == [op |-> op, arg |-> arg, err |-> r.err, val |-> r.val]

\* a goroutine that runs no SearchTypes and no AnalyzeRepository
NoNest == [op |-> "none", order |-> <<>>, at |-> 0]

NoRead == [name |-> <<>>, genInit |-> -1, genPkgs |-> -1, err |-> "nil", found |-> ""]

SetModel(a) ==
    /\ pkgs' = a.pkgs
    /\ docPkgs' = a.docPkgs
    /\ files' = a.files
    /\ initialized' = a.initialized

\* a value held as interface{}: its dynamic type and the value
Dyn(type, v) == [type |-> type, v |-> v]

\* the nil interface value
NilValue == Dyn("nil", <<>>)

\* fmt.Sprintf("type:%s", name) and its like
pfxType    == <<"t", "y", "p", "e", ":">>
pfxMethods == <<"m", "e", "t", "h", "o", "d", "s", ":">>
pfxExample == <<"e", "x", "a", "m", "p", "l", "e", ":">>
CacheKey(prefix, name) == prefix \o name

\* encoding/json on the way back from the file: a string stays a string, a
\* struct comes back as a map and a slice as a []interface{}
JsonDecoded(value) ==
    Dyn(CASE value.type = "string"                 -> "string"
          [] value.type = "*analyzer.TypeInfo"     -> "map[string]interface {}"
          [] value.type = "[]analyzer.MethodInfo"  -> "[]interface {}"
          [] OTHER                                 -> value.type,
        value.v)

\* Cache.load: c.data is what json.Unmarshal makes of the file's entries; no
\* file, no entries
CacheLoad(file) ==
    [k \in DOMAIN file |-> [Value |-> JsonDecoded(file[k].Value),
                            Expiration |-> file[k].Expiration]]

\* what the cache file holds when the server starts: nothing (there is no
\* file), or the entries an earlier run saved: an example stored for good
\* and a descriptor that expires after the second day
CacheFiles ==
    {EmptyMap,
     [k \in {CacheKey(pfxExample, nConfig), CacheKey(pfxType, nConfig)} |->
         IF k = CacheKey(pfxExample, nConfig)
         THEN [Value |-> Dyn("string", <<"v", "1">>), Expiration |-> 0]
         ELSE [Value |-> Dyn("*analyzer.TypeInfo",
                             LookupType(NewAnalyzer("twopkgs").a,
                                        <<"config", "main">>, nConfig).val),
               Expiration |-> 2]]}

\* NewAnalyzer(repoPath) has returned an analyzer (the path existed and
\* initialize succeeded) and cache.New has loaded the cache file
Init ==
    /\ disk \in RepoIds
    /\ pkgs = NewAnalyzer(disk).a.pkgs
    /\ docPkgs = NewAnalyzer(disk).a.docPkgs
    /\ files = NewAnalyzer(disk).a.files
    /\ initialized = NewAnalyzer(disk).a.initialized
    /\ call = Returned("NewAnalyzer", <<>>, Ok(<<>>))
    /\ prev = NoCall
    /\ pc = [p \in Procs |-> "idle"]
    /\ rw = [readers |-> {}, blocked |-> {}, writer |-> "none"]
    /\ rd = [p \in Readers |-> NoRead]
    /\ gen = 0
    /\ refreshes = 0
    /\ cache \in {CacheLoad(f) : f \in CacheFiles}
    /\ now = 1
    /\ setErr = "none"
    /\ hd = [h \in Handlers |-> NoHandler]
    /\ tools = EmptyMap
    /\ heap = <<>>
    /\ tmu = <<>>
    /\ ex = [g \in Executors |-> Resting]
    /\ mret = NoManaged
    /\ nest = [p \in Readers |-> NoNest]

\* the repository changes on disk (files edited, the directory removed or
\* put back); the analyzer does not notice before its next Refresh
EditDisk(d) ==
    /\ d # disk
    /\ disk' = d
    /\ UNCHANGED <<modelVars, callVars, concVars, cacheVars, toolVars>>

\* ------------------------------------------------------------------------
\* One caller: every operation runs from its lock to its unlock in one step
\* ------------------------------------------------------------------------

\* a query: the model stays as it is (prev keeps the call before this one
\* when both are LookupType or both are Close, and the Close right before a
\* Refresh)
Query(op, arg, r) ==
    /\ call' = Returned(op, arg, r)
    /\ prev' = IF op = "LookupType" /\ call.op = "LookupType" THEN call ELSE NoCall
    /\ UNCHANGED <<disk, modelVars, concVars, cacheVars, toolVars>>

LookupTypeCall(typeName) ==
    \E order \in RangeOrders(pkgs) :
        Query("LookupType", typeName, LookupType(Analyzer, order, typeName))

ListMethodsCall(typeName) ==
    \E order \in RangeOrders(pkgs) :
        Query("ListMethods", typeName, ListMethods(Analyzer, order, typeName))

SearchTypesCall(query) ==
    \E orders \in SearchOrderChoices(Analyzer, query) :
        Query("SearchTypes", query, SearchTypes(Analyzer, orders, query))

GetExampleCall(topic) ==
    \E order \in RangeOrders(docPkgs) :
        Query("GetExample", topic, GetExample(Analyzer, order, topic))

AnalyzeRepositoryCall ==
    \E orders \in AnalyzeOrderChoices(Analyzer) :
        Query("AnalyzeRepository", <<>>, AnalyzeRepository(Analyzer, orders))

PkgNames == {"shapes", "config", "main", "nope"}

GetPackageInfoCall(packageName) ==
    Query("GetPackageInfo", packageName, GetPackageInfo(Analyzer, packageName))

RefreshCall ==
    LET r == Refresh(Analyzer, disk)
    IN  /\ SetModel(r.a)
        /\ call' = Returned("Refresh", <<>>, [err |-> r.err, val |-> <<>>])
        /\ prev' = IF call.op = "Close" THEN call ELSE NoCall
        /\ UNCHANGED <<disk, concVars, cacheVars, toolVars>>

CloseCall ==
    /\ SetModel(Close(Analyzer))
    /\ call' = Returned("Close", <<>>, Ok(<<>>))
    /\ prev' = IF call.op = "Close" THEN call ELSE NoCall
    /\ UNCHANGED <<disk, concVars, cacheVars, toolVars>>

Next ==
    \/ \E d \in DiskStates : EditDisk(d)
    \/ \E n \in TypeNames : LookupTypeCall(n)
    \/ \E n \in TypeNames : ListMethodsCall(n)
    \/ \E q \in Queries : SearchTypesCall(q)
    \/ \E t \in TypeNames : GetExampleCall(t)
    \/ AnalyzeRepositoryCall
    \/ \E n \in PkgNames : GetPackageInfoCall(n)
    \/ RefreshCall
    \/ CloseCall

\* the server's first start: no earlier run has left a cache file
FirstInit == Init /\ cache = EmptyMap

Spec == FirstInit /\ [][Next]_vars

\* ------------------------------------------------------------------------
\* a.mu, a sync.RWMutex: rw.readers hold the read lock, rw.blocked wait in
\* RLock, rw.writer is "pending" from the moment Lock() is called (it then
\* waits for the read holders to leave) and "held" once Lock() has returned
\* ------------------------------------------------------------------------

\* the read lock a goroutine takes a second time, in the LookupType its
\* SearchTypes or AnalyzeRepository calls, is held beside its first one
Inner(p) == 0 - p

\* a LookupType that takes no lock at all
RLockAdmitsAlways(l) == TRUE

\* a.mu.RLock() returns at once unless a writer holds the lock or waits for it
RLockAdmits(l) == l.writer = "none"

\* a LookupType that returns without releasing its read lock
RUnlockMissing(l, p) == l

\* defer a.mu.RUnlock()
RUnlock(l, p) == [l EXCEPT !.readers = @ \ {p}]

\* a.mu.Lock() may return: the read holders have left
LockAdmits(l) == l.writer = "pending" /\ l.readers = {}

\* defer a.mu.Unlock(): the readers blocked meanwhile get the read lock
Unlock(l) == [readers |-> l.readers \cup l.blocked, blocked |-> {}, writer |-> "none"]

\* ------------------------------------------------------------------------
\* Concurrent callers: goroutines 1..NumReaders call LookupType, goroutine 0
\* calls Refresh; every step is one lock operation or one access to the
\* model.  The readers ask for Config: two packages of one repository
\* declare it, the other repositories do not declare it.
\* ------------------------------------------------------------------------

ConcNames == {nConfig}

\* LookupType(typeName) is called
R_Call(p, typeName) ==
    /\ pc[p] = "idle"
    /\ pc' = [pc EXCEPT ![p] = "rlock"]
    /\ rd' = [rd EXCEPT ![p] = [NoRead EXCEPT !.name = typeName]]
    /\ UNCHANGED <<disk, modelVars, callVars, cacheVars, toolVars, rw, gen, refreshes, nest>>

\* a.mu.RLock()
R_RLock(p) ==
    /\ pc[p] = "rlock"
    /\ IF RLockAdmits(rw)
       THEN /\ rw' = [rw EXCEPT !.readers = @ \cup {p}]
            /\ pc' = [pc EXCEPT ![p] = "check"]
       ELSE /\ rw' = [rw EXCEPT !.blocked = @ \cup {p}]
            /\ pc' = [pc EXCEPT ![p] = "blocked"]
    /\ UNCHANGED <<disk, modelVars, callVars, cacheVars, toolVars, rd, gen, refreshes, nest>>

\* if !a.initialized { return nil, "analyzer not initialized" }
R_Check(p) ==
    /\ pc[p] = "check"
    /\ IF ~initialized
       THEN /\ rd' = [rd EXCEPT ![p].genInit = gen,
                                ![p].err = ErrNotInitialized]
            /\ pc' = [pc EXCEPT ![p] = "runlock"]
       ELSE /\ rd' = [rd EXCEPT ![p].genInit = gen]
            /\ pc' = [pc EXCEPT ![p] = "scan"]
    /\ UNCHANGED <<disk, modelVars, callVars, cacheVars, toolVars, rw, gen, refreshes, nest>>

\* for pkgName, pkg := range a.pkgs { ... }: the goroutine notes the package
\* the loop stopped at
R_Scan(p) ==
    /\ pc[p] = "scan"
    /\ \E order \in RangeOrders(pkgs) :
           LET pkgName == FirstDeclaring(Analyzer, order, rd[p].name)
           IN  rd' = [rd EXCEPT ![p].genPkgs = gen,
                                ![p].found = pkgName,
                                ![p].err = IF pkgName = "" THEN ErrNotFound
                                           ELSE "nil"]
    /\ pc' = [pc EXCEPT ![p] = "runlock"]
    /\ UNCHANGED <<disk, modelVars, callVars, cacheVars, toolVars, rw, gen, refreshes, nest>>

\* what LookupType is about to return: the descriptor built, under the read
\* lock, of the object the loop stopped at, or the error (or the panic the
\* deferred RUnlock lets through)
ReturnValue(p) ==
    IF rd[p].err # "nil" THEN Err(rd[p].err)
    ELSE DescribeObject(Analyzer, rd[p].found, rd[p].name,
                        ScopeLookup(pkgs[rd[p].found], rd[p].name))

\* the deferred a.mu.RUnlock(); LookupType returns ReturnValue(p)
R_RUnlock(p) ==
    /\ pc[p] = "runlock"
    /\ rw' = RUnlock(rw, p)
    /\ pc' = [pc EXCEPT ![p] = "idle"]
    /\ rd' = [rd EXCEPT ![p] = NoRead]
    /\ UNCHANGED <<disk, modelVars, callVars, cacheVars, toolVars, gen, refreshes, nest>>

\* Refresh() is called
W_Call ==
    /\ pc[Writer] = "idle"
    /\ refreshes < MaxRefreshes
    /\ refreshes' = refreshes + 1
    /\ pc' = [pc EXCEPT ![Writer] = "lock"]
    /\ UNCHANGED <<disk, modelVars, callVars, cacheVars, toolVars, rw, rd, gen, nest>>

\* a.mu.Lock() is entered: readers that come from now on wait
W_Lock ==
    /\ pc[Writer] = "lock"
    /\ rw' = [rw EXCEPT !.writer = "pending"]
    /\ pc' = [pc EXCEPT ![Writer] = "wait"]
    /\ UNCHANGED <<disk, modelVars, callVars, cacheVars, toolVars, rd, gen, refreshes, nest>>

\* a.mu.Lock() returns
W_Acquire ==
    /\ pc[Writer] = "wait"
    /\ LockAdmits(rw)
    /\ rw' = [rw EXCEPT !.writer = "held"]
    /\ pc' = [pc EXCEPT ![Writer] = "teardown"]
    /\ UNCHANGED <<disk, modelVars, callVars, cacheVars, toolVars, rd, gen, refreshes, nest>>

\* "Clear existing data"
W_Teardown ==
    /\ pc[Writer] = "teardown"
    /\ SetModel(Teardown(Analyzer))
    /\ gen' = gen + 1
    /\ pc' = [pc EXCEPT ![Writer] = "parse"]
    /\ UNCHANGED <<disk, callVars, cacheVars, toolVars, rw, rd, refreshes, nest>>

\* initialize: parseRepository and typeCheckPackages
W_Parse ==
    /\ pc[Writer] = "parse"
    /\ LET parsed == ParseRepository(Analyzer, disk)
       IN  /\ SetModel(parsed.a)
           /\ pc' = [pc EXCEPT ![Writer] =
                        IF parsed.err = "nil" THEN "doc" ELSE "failed"]
    /\ UNCHANGED <<disk, callVars, cacheVars, toolVars, rw, rd, gen, refreshes, nest>>

\* initialize: generateDocumentation
W_Doc ==
    /\ pc[Writer] = "doc"
    /\ SetModel(GenerateDocumentation(Analyzer))
    /\ pc' = [pc EXCEPT ![Writer] = "init"]
    /\ UNCHANGED <<disk, callVars, cacheVars, toolVars, rw, rd, gen, refreshes, nest>>

\* initialize: a.initialized = true
W_Init ==
    /\ pc[Writer] = "init"
    /\ SetModel([Analyzer EXCEPT !.initialized = TRUE])
    /\ pc' = [pc EXCEPT ![Writer] = "built"]
    /\ UNCHANGED <<disk, callVars, cacheVars, toolVars, rw, rd, gen, refreshes, nest>>

\* the deferred a.mu.Unlock(); Refresh returns, with the error if the
\* rebuild failed
W_Unlock ==
    /\ pc[Writer] \in {"built", "failed"}
    /\ rw' = Unlock(rw)
    /\ pc' = [p \in Procs |->
                 IF p = Writer THEN "idle"
                 ELSE IF p \in rw.blocked
                      THEN (IF pc[p] = "n_blocked" THEN "n_check" ELSE "check")
                 ELSE IF Inner(p) \in rw.blocked THEN "i_body"
                 ELSE pc[p]]
    /\ gen' = gen + 1
    /\ UNCHANGED <<disk, modelVars, callVars, cacheVars, toolVars, rd, refreshes, nest>>

ReaderProgress(p) == R_RLock(p) \/ R_Check(p) \/ R_Scan(p) \/ R_RUnlock(p)

WriterProgress ==
    W_Lock \/ W_Acquire \/ W_Teardown \/ W_Parse \/ W_Doc \/ W_Init \/ W_Unlock

ConcNext ==
    \/ \E d \in DiskStates : EditDisk(d)
    \/ \E p \in Readers, n \in ConcNames : R_Call(p, n)
    \/ \E p \in Readers : ReaderProgress(p)
    \/ W_Call
    \/ WriterProgress

\* every goroutine that can take a step of its call eventually takes one
ConcSpec ==
    /\ FirstInit
    /\ [][ConcNext]_vars
    /\ WF_vars(WriterProgress)
    /\ \A p \in Readers : WF_vars(ReaderProgress(p))

\* ------------------------------------------------------------------------
\* SearchTypes and AnalyzeRepository beside a writer: the goroutines
\* 1..NumReaders take the read lock, walk the packages and call LookupType,
\* which takes the read lock again, for every type they describe; goroutine
\* 0 calls Refresh or Close.  Only the lock operations and the loop are
\* steps here; what the calls return is in SearchTypes and AnalyzeRepository
\* above.
\* ------------------------------------------------------------------------

NestOps == {"SearchTypes", "AnalyzeRepository"}

\* the query the SearchTypes goroutines pass
NestQuery == <<"c">>

\* the walk calls a.LookupType for the object: every TypeName in
\* AnalyzeRepository, the TypeNames whose name contains the query in
\* SearchTypes
Looked(op, obj) ==
    /\ obj.cat = "type"
    /\ (op = "SearchTypes" => Contains(ToLower(obj.name), ToLower(NestQuery)))

\* the places, after place `at`, of the objects among the visits for which
\* the walk calls a.LookupType
LookedAfter(visits, op, at) ==
    {i \in (at + 1)..Len(visits) : Looked(op, visits[i].obj)}

\* SearchTypes(query) or AnalyzeRepository(ctx) is called
N_Call(p, op) ==
    /\ pc[p] = "idle"
    /\ pc' = [pc EXCEPT ![p] = "n_rlock"]
    /\ nest' = [nest EXCEPT ![p] = [op |-> op, order |-> <<>>, at |-> 0]]
    /\ UNCHANGED <<disk, modelVars, callVars, cacheVars, toolVars, rw, rd, gen, refreshes>>

\* a.mu.RLock() of SearchTypes / AnalyzeRepository
N_RLock(p) ==
    /\ pc[p] = "n_rlock"
    /\ IF RLockAdmits(rw)
       THEN /\ rw' = [rw EXCEPT !.readers = @ \cup {p}]
            /\ pc' = [pc EXCEPT ![p] = "n_check"]
       ELSE /\ rw' = [rw EXCEPT !.blocked = @ \cup {p}]
            /\ pc' = [pc EXCEPT ![p] = "n_blocked"]
    /\ UNCHANGED <<disk, modelVars, callVars, cacheVars, toolVars, rd, gen, refreshes, nest>>

\* AnalyzeRepository returns at once if !a.initialized (SearchTypes does not
\* look); otherwise the walk over a.pkgs and scope.Names() begins, and the
\* range over a.pkgs meets some order
N_Check(p) ==
    /\ pc[p] = "n_check"
    /\ IF nest[p].op = "AnalyzeRepository" /\ ~initialized
       THEN /\ pc' = [pc EXCEPT ![p] = "n_runlock"]
            /\ UNCHANGED nest
       ELSE /\ pc' = [pc EXCEPT ![p] = "n_walk"]
            /\ \E order \in RangeOrders(pkgs) :
                   nest' = [nest EXCEPT ![p].order = order]
    /\ UNCHANGED <<disk, modelVars, callVars, cacheVars, toolVars, rw, rd, gen, refreshes>>

\* the walk goes on to the next type it describes and calls a.LookupType,
\* or it ends (visits and next are the walk and the places still to come)
N_Walk(p) ==
    /\ pc[p] = "n_walk"
    /\ \E visits \in {Visits(Analyzer, nest[p].order)} :
       \E next \in {LookedAfter(visits, nest[p].op, nest[p].at)} :
         IF next = {}
         THEN /\ pc' = [pc EXCEPT ![p] = "n_runlock"]
              /\ UNCHANGED nest
         ELSE /\ pc' = [pc EXCEPT ![p] = "i_rlock"]
              /\ nest' = [nest EXCEPT ![p].at =
                     CHOOSE i \in next : \A j \in next : i <= j]
    /\ UNCHANGED <<disk, modelVars, callVars, cacheVars, toolVars, rw, rd, gen, refreshes>>

\* a.mu.RLock() of the LookupType called in the walk
I_RLock(p) ==
    /\ pc[p] = "i_rlock"
    /\ IF RLockAdmits(rw)
       THEN /\ rw' = [rw EXCEPT !.readers = @ \cup {Inner(p)}]
            /\ pc' = [pc EXCEPT ![p] = "i_body"]
       ELSE /\ rw' = [rw EXCEPT !.blocked = @ \cup {Inner(p)}]
            /\ pc' = [pc EXCEPT ![p] = "i_blocked"]
    /\ UNCHANGED <<disk, modelVars, callVars, cacheVars, toolVars, rd, gen, refreshes, nest>>

\* that LookupType runs, its range over a.pkgs meeting some order, and
\* leaves through its deferred a.mu.RUnlock(): it returns to the walk, or it
\* panics in sizes.Sizeof and the panic goes on into the caller
I_RUnlock(p) ==
    /\ pc[p] = "i_body"
    /\ rw' = RUnlock(rw, Inner(p))
    /\ \E typeName \in {Visits(Analyzer, nest[p].order)[nest[p].at].obj.name} :
       \E order \in RangeOrders(pkgs) :
           IF LookupPanics(Analyzer, order, typeName)
           THEN pc' = [pc EXCEPT ![p] = "n_unwind"]
           ELSE pc' = [pc EXCEPT ![p] = "n_walk"]
    /\ UNCHANGED <<disk, modelVars, callVars, cacheVars, toolVars, rd, gen, refreshes, nest>>

\* the panic unwinds SearchTypes / AnalyzeRepository: the deferred
\* a.mu.RUnlock() runs and the panic goes on into the caller; the other
\* goroutines run on
N_Unwind(p) ==
    /\ pc[p] = "n_unwind"
    /\ rw' = RUnlock(rw, p)
    /\ pc' = [pc EXCEPT ![p] = "panicked"]
    /\ nest' = [nest EXCEPT ![p] = NoNest]
    /\ UNCHANGED <<disk, modelVars, callVars, cacheVars, toolVars, rd, gen, refreshes>>

\* nothing recovers the panic: some time after the deferred calls have run
\* the runtime ends the process, and every goroutine with it
N_Exit(p) ==
    /\ pc[p] = "panicked"
    /\ pc' = [q \in Procs |-> "exited"]
    /\ UNCHANGED <<disk, modelVars, callVars, cacheVars, toolVars, rw, rd, gen, refreshes, nest>>

\* the deferred a.mu.RUnlock() of SearchTypes / AnalyzeRepository
N_RUnlock(p) ==
    /\ pc[p] = "n_runlock"
    /\ rw' = RUnlock(rw, p)
    /\ pc' = [pc EXCEPT ![p] = "idle"]
    /\ nest' = [nest EXCEPT ![p] = NoNest]
    /\ UNCHANGED <<disk, modelVars, callVars, cacheVars, toolVars, rd, gen, refreshes>>

\* Close() is called
K_Call ==
    /\ pc[Writer] = "idle"
    /\ refreshes < MaxRefreshes
    /\ refreshes' = refreshes + 1
    /\ pc' = [pc EXCEPT ![Writer] = "k_lock"]
    /\ UNCHANGED <<disk, modelVars, callVars, cacheVars, toolVars, rw, rd, gen, nest>>

\* a.mu.Lock() of Close is entered
K_Lock ==
    /\ pc[Writer] = "k_lock"
    /\ rw' = [rw EXCEPT !.writer = "pending"]
    /\ pc' = [pc EXCEPT ![Writer] = "k_wait"]
    /\ UNCHANGED <<disk, modelVars, callVars, cacheVars, toolVars, rd, gen, refreshes, nest>>

\* a.mu.Lock() of Close returns; a.initialized = false
K_Close ==
    /\ pc[Writer] = "k_wait"
    /\ LockAdmits(rw)
    /\ rw' = [rw EXCEPT !.writer = "held"]
    /\ SetModel(Close(Analyzer))
    /\ pc' = [pc EXCEPT ![Writer] = "built"]
    /\ UNCHANGED <<disk, callVars, cacheVars, toolVars, rd, gen, refreshes, nest>>

NestProgress(p) ==
    \/ N_RLock(p) \/ N_Check(p) \/ N_Walk(p) \/ I_RLock(p) \/ I_RUnlock(p)
    \/ N_RUnlock(p) \/ N_Unwind(p)

NestNext ==
    \/ \E d \in DiskStates : EditDisk(d)
    \/ \E p \in Readers, op \in NestOps : N_Call(p, op)
    \/ \E p \in Readers : NestProgress(p)
    \/ \E p \in Readers : N_Exit(p)
    \/ W_Call
    \/ WriterProgress
    \/ K_Call \/ K_Lock \/ K_Close

\* every goroutine that can take a step of its call eventually takes one;
\* when the runtime ends the process after a panic is left open
NestSpec ==
    /\ FirstInit
    /\ [][NestNext]_vars
    /\ WF_vars(WriterProgress \/ K_Lock \/ K_Close)
    /\ \A p \in Readers : WF_vars(NestProgress(p))

\* ------------------------------------------------------------------------
\* The cache (cache.Cache) and the handlers that consult it before they ask
\* the analyzer.  Time is counted in days.
\* ------------------------------------------------------------------------

\* the last instant the clock reaches
MaxTime == 3

\* 24*time.Hour, the lifetime the handlers give their entries
HandlerTTL == 1

ErrSave == "failed to write cache file"

\* a Get that never looks at the expiration
CacheGetIgnoresExpiration(data, key, t) ==
    IF key \notin DOMAIN data THEN [value |-> NilValue, found |-> FALSE]
    ELSE [value |-> data[key].Value, found |-> TRUE]

\* Cache.Get(key) at time t
CacheGet(data, key, t) ==
    IF key \notin DOMAIN data THEN [value |-> NilValue, found |-> FALSE]
    ELSE IF data[key].Expiration > 0 /\ data[key].Expiration < t
         THEN [value |-> NilValue, found |-> FALSE]
         ELSE [value |-> data[key].Value, found |-> TRUE]

\* Cache.Set(key, value, duration) at time t: the entry is in c.data whether
\* or not c.save() then fails; saveErr is what c.save() returns
CacheSet(data, key, value, duration, t, saveErr) ==
    LET exp == IF duration > 0 THEN t + duration ELSE 0
    IN  [data |-> MapMerge(data, [k \in {key} |->
                                     [Value |-> value, Expiration |-> exp]]),
         err |-> saveErr]

\* a Clear that only drops the entries that have expired
CacheClearDropsExpired(data, t, saveErr) ==
    [data |-> [k \in {j \in DOMAIN data : CacheGet(data, j, t).found} |-> data[k]],
     err |-> saveErr]

\* Cache.Clear() at time t
CacheClear(data, t, saveErr) == [data |-> EmptyMap, err |-> saveErr]

\* json.Marshal followed by mcp.NewTextContent: the text is a function of the
\* value marshalled, and values that differ give texts that differ (every
\* field of a descriptor has a json name)
JsonText(v) == [text |-> "json", of |-> v]

\* a handler that returns the error of the cache write
HandlerReturnPropagates(resp, err) ==
    IF err # "nil" THEN Err(err) ELSE resp

\* what a handler returns after cacheInstance.Set returned err: the error
\* is logged and dropped
HandlerReturn(resp, err) == resp

HandlerOps == {"lookupTypeHandler", "listMethodsHandler", "showExampleHandler"}

\* the cache key a handler uses for a name
KeyOf(op, name) ==
    CASE op = "lookupTypeHandler"  -> CacheKey(pfxType, name)
      [] op = "listMethodsHandler" -> CacheKey(pfxMethods, name)
      [] op = "showExampleHandler" -> CacheKey(pfxExample, name)

\* the dynamic type a handler asserts of the value it got from the cache
AssertedType(op) ==
    CASE op = "lookupTypeHandler"  -> "*analyzer.TypeInfo"
      [] op = "listMethodsHandler" -> "[]string"
      [] op = "showExampleHandler" -> "string"

\* the dynamic type of the value a handler stores: what the analyzer returned
StoredType(op) ==
    CASE op = "lookupTypeHandler"  -> "*analyzer.TypeInfo"
      [] op = "listMethodsHandler" -> "[]analyzer.MethodInfo"
      [] op = "showExampleHandler" -> "string"

\* the response a handler builds from a value: the json text of a descriptor
\* or of a method list, the example as it is
Respond(op, v) == IF op = "showExampleHandler" THEN Ok(v) ELSE Ok(JsonText(v))

\* the handler's call of the analyzer when the range visits in `order`
Ask(op, a, order, name) ==
    CASE op = "lookupTypeHandler"  -> LookupType(a, order, name)
      [] op = "listMethodsHandler" -> ListMethods(a, order, name)
      [] op = "showExampleHandler" -> GetExample(a, order, name)

\* the map that call ranges over
AskedMap(op) == IF op = "showExampleHandler" THEN docPkgs ELSE pkgs

\* ------------------------------------------------------------------------
\* The cache on its own: Set, Get and Clear are called while time passes
\* ------------------------------------------------------------------------

SaveErrs == {"nil", ErrSave}

CacheKeys == {CacheKey(pfxType, nConfig), CacheKey(pfxExample, nConfig)}

\* the values callers store directly
StoredValues == {Dyn("string", <<"v", "1">>), Dyn("string", <<"v", "2">>)}

\* the durations they give: none, one day, two days
Durations == {0, 1, 2}

\* time passes
Tick ==
    /\ now < MaxTime
    /\ now' = now + 1
    /\ UNCHANGED <<disk, modelVars, callVars, concVars, toolVars, cache, setErr, hd>>

CacheGetCall(key) ==
    /\ call' = Returned("Cache.Get", key, Ok(CacheGet(cache, key, now)))
    /\ prev' = NoCall
    /\ setErr' = "none"
    /\ UNCHANGED <<disk, modelVars, concVars, toolVars, cache, now, hd>>

CacheSetCall(key, value, duration) ==
    \E saveErr \in SaveErrs :
        LET set == CacheSet(cache, key, value, duration, now, saveErr)
        IN  /\ cache' = set.data
            /\ setErr' = set.err
            /\ call' = Returned("Cache.Set",
                                [key |-> key, value |-> value, duration |-> duration],
                                [err |-> set.err, val |-> <<>>])
            /\ prev' = NoCall
            /\ UNCHANGED <<disk, modelVars, concVars, toolVars, now, hd>>

CacheClearCall ==
    \E saveErr \in SaveErrs :
        LET cleared == CacheClear(cache, now, saveErr)
        IN  /\ cache' = cleared.data
            /\ setErr' = "none"
            /\ call' = Returned("Cache.Clear", <<>>,
                                [err |-> cleared.err, val |-> <<>>])
            /\ prev' = IF call.op = "Cache.Set" THEN call ELSE NoCall
            /\ UNCHANGED <<disk, modelVars, concVars, toolVars, now, hd>>

CacheNext ==
    \/ Tick
    \/ \E k \in CacheKeys : CacheGetCall(k)
    \/ \E k \in CacheKeys, v \in StoredValues, d \in Durations :
           CacheSetCall(k, v, d)
    \/ CacheClearCall

CacheSpec == Init /\ [][CacheNext]_vars

\* ------------------------------------------------------------------------
\* The handlers: each takes the cache's lock for its Get, the analyzer's for
\* its query and the cache's again for its Set.  In HandlerSpec one handler
\* goroutine serves while, between its steps, the analyzer is refreshed and
\* closed, the cache is written and cleared by others, and time passes; in
\* ServeSpec the handler goroutines serve concurrently while time passes.
\* ------------------------------------------------------------------------

HandlerNames == {nConfig}

\* a handler returns r
HandlerReturns(h, r) ==
    /\ call' = Returned(hd[h].op, hd[h].name, r)
    /\ prev' = NoCall
    /\ hd' = [hd EXCEPT ![h] = NoHandler]

\* a handler is called and does cacheInstance.Get under the cache's lock: on
\* an entry of the type it asserts it returns the entry, else it goes on to
\* the analyzer
H_Get(h, op, name) ==
    /\ hd[h].pc = "idle"
    /\ LET got == CacheGet(cache, KeyOf(op, name), now)
       IN  IF got.found /\ got.value.type = AssertedType(op)
           THEN /\ call' = Returned(op, name, Respond(op, got.value.v))
                /\ prev' = NoCall
                /\ setErr' = "none"
                /\ hd' = hd
           ELSE /\ hd' = [hd EXCEPT ![h] = [pc |-> "ask", op |-> op,
                                            name |-> name, val |-> <<>>]]
                /\ UNCHANGED <<callVars, setErr>>
    /\ UNCHANGED <<disk, modelVars, concVars, toolVars, cache, now>>

\* the analyzer call, under the analyzer's read lock: an error is returned
\* to the caller, a value is kept for the cache
H_Ask(h) ==
    /\ hd[h].pc = "ask"
    /\ \E order \in RangeOrders(AskedMap(hd[h].op)) :
           LET r == Ask(hd[h].op, Analyzer, order, hd[h].name)
           IN  IF r.err # "nil"
               THEN /\ HandlerReturns(h, Err(r.err))
                    /\ setErr' = "none"
               ELSE /\ hd' = [hd EXCEPT ![h].pc = "set", ![h].val = r.val]
                    /\ UNCHANGED <<callVars, setErr>>
    /\ UNCHANGED <<disk, modelVars, concVars, toolVars, cache, now>>

\* cacheInstance.Set under the cache's lock, and the return of the response
H_Set(h) ==
    /\ hd[h].pc = "set"
    /\ \E saveErr \in SaveErrs :
           LET set == CacheSet(cache, KeyOf(hd[h].op, hd[h].name),
                               Dyn(StoredType(hd[h].op), hd[h].val),
                               HandlerTTL, now, saveErr)
           IN  /\ cache' = set.data
               /\ setErr' = set.err
               /\ HandlerReturns(h, HandlerReturn(Respond(hd[h].op, hd[h].val),
                                                  set.err))
    /\ UNCHANGED <<disk, modelVars, concVars, toolVars, now>>

\* the handler goroutine that serves while others act on the analyzer and
\* the cache
FirstHandler == CHOOSE h \in Handlers : \A g \in Handlers : h <= g

\* the repositories the server is run on while others edit them
ServedRepos == {"twopkgs", "shapes"}

HandlerNext ==
    \/ \E d \in ServedRepos : EditDisk(d)
    \/ RefreshCall
    \/ CloseCall
    \/ Tick
    \/ \E op \in HandlerOps, n \in HandlerNames : H_Get(FirstHandler, op, n)
    \/ H_Ask(FirstHandler)
    \/ H_Set(FirstHandler)
    \/ CacheSetCall(CacheKey(pfxExample, nConfig), Dyn("string", <<"v", "1">>), 1)
    \/ CacheClearCall

\* the server has started on one of these repositories
HandlerInit == Init /\ disk \in ServedRepos

HandlerSpec == HandlerInit /\ [][HandlerNext]_vars

\* the server as main runs it: nothing but the handlers touches the analyzer
\* and the cache
ServeNext ==
    \/ Tick
    \/ \E h \in Handlers, op \in HandlerOps, n \in HandlerNames : H_Get(h, op, n)
    \/ \E h \in Handlers : H_Ask(h)
    \/ \E h \in Handlers : H_Set(h)

ServeSpec == HandlerInit /\ [][ServeNext]_vars

\* ------------------------------------------------------------------------
\* The tool manager, called by one goroutine
\* ------------------------------------------------------------------------

\* a manager operation has returned
Managed(r) ==
    /\ mret' = r
    /\ UNCHANGED <<disk, modelVars, callVars, concVars, cacheVars>>

\* a RegisterTool that keeps the Tool already registered under the name
RegisterToolKeepsFirst(m, config, id) ==
    IF config.Name \in DOMAIN m THEN m
    ELSE MapMerge(m, [n \in {config.Name} |-> id])

\* RegisterTool(config): tm.tools[config.Name] = NewTool(config), id being
\* the Tool NewTool made
RegisterTool(m, config, id) == MapMerge(m, [n \in {config.Name} |-> id])

\* GetTool(name): tool, ok := tm.tools[name]
GetTool(m, name) ==
    IF name \in DOMAIN m THEN ManagerReturn("GetTool", name, m[name], TRUE, <<>>)
    ELSE ManagerReturn("GetTool", name, 0, FALSE, <<>>)

\* ListTools(): the names in the order of its range over tm.tools
ListTools(m, order) == ManagerReturn("ListTools", "", 0, FALSE, order)

RegisterToolCall(config) ==
    /\ Len(heap) < MaxTools
    /\ heap' = Append(heap, config)
    /\ tmu' = Append(tmu, 0)
    /\ tools' = RegisterTool(tools, config, Len(heap) + 1)
    /\ Managed(ManagerReturn("RegisterTool", config.Name, 0, FALSE, <<>>))
    /\ UNCHANGED ex

GetToolCall(name) ==
    /\ Managed(GetTool(tools, name))
    /\ UNCHANGED <<tools, heap, tmu, ex>>

ListToolsCall ==
    /\ \E order \in RangeOrders(tools) : Managed(ListTools(tools, order))
    /\ UNCHANGED <<tools, heap, tmu, ex>>

ManagerNext ==
    \/ \E c \in ToolConfigs : RegisterToolCall(c)
    \/ \E n \in ToolNames : GetToolCall(n)
    \/ ListToolsCall

ToolSpec == FirstInit /\ [][ManagerNext]_vars

\* ------------------------------------------------------------------------
\* Tool.Execute, called by the goroutines 1..NumExecutors on the Tools that
\* NewTool has made
\* ------------------------------------------------------------------------

\* NewTool(config)
NewToolCall(config) ==
    /\ Len(heap) < MaxTools
    /\ heap' = Append(heap, config)
    /\ tmu' = Append(tmu, 0)
    /\ UNCHANGED <<disk, modelVars, callVars, concVars, cacheVars, tools, ex, mret>>

\* an Execute that takes no lock
MutexFreeAlways(mu, id) == TRUE

\* t.mu.Lock() can return
MutexFree(mu, id) == mu[id] = 0

\* an Execute that hands its input to the command as one more argument
ExecuteResultPassesInput(config, input) ==
    LET given == [config EXCEPT !.Args = Append(@, input)]
    IN  IF ~CanStart(given) THEN Failed(ErrExec)
        ELSE IF given.Timeout > 0
                /\ (~Ends(given) \/ RunSeconds(given) >= given.Timeout)
             THEN Failed(ErrExec)
        ELSE IF ExitStatus(given) # 0 THEN Failed(ErrExec)
        ELSE Output(Printed(given))

\* what Execute returns once cmd.CombinedOutput() has returned: an error if
\* the command could not be started, if the deadline of a positive Timeout
\* (which runs from before the start) passed before the command ended and
\* killed it, or if it ended with a non-zero exit status; else its output
ExecuteResult(config, input) ==
    IF ~CanStart(config) THEN Failed(ErrExec)
    ELSE IF config.Timeout > 0
            /\ (~Ends(config) \/ RunSeconds(config) >= config.Timeout)
         THEN Failed(ErrExec)
    ELSE IF ExitStatus(config) # 0 THEN Failed(ErrExec)
    ELSE Output(Printed(config))

\* Execute(ctx, input) is called on Tool id
E_Call(g, id, input) ==
    /\ ex[g].pc = "idle"
    /\ id \in 1..Len(heap)
    /\ ex' = [ex EXCEPT ![g] = [pc |-> "lock", tool |-> id, input |-> input,
                                ret |-> NoReturn]]
    /\ UNCHANGED <<disk, modelVars, callVars, concVars, cacheVars, tools, heap, tmu, mret>>

\* t.mu.Lock()
E_Lock(g) ==
    /\ ex[g].pc = "lock"
    /\ MutexFree(tmu, ex[g].tool)
    /\ tmu' = [tmu EXCEPT ![ex[g].tool] = g]
    /\ ex' = [ex EXCEPT ![g].pc = "start"]
    /\ UNCHANGED <<disk, modelVars, callVars, concVars, cacheVars, tools, heap, mret>>

\* cmd.CombinedOutput() starts the command, or fails to
E_Start(g) ==
    /\ ex[g].pc = "start"
    /\ ex' = [ex EXCEPT ![g].pc = IF CanStart(heap[ex[g].tool])
                                   THEN "running" ELSE "ended"]
    /\ UNCHANGED <<disk, modelVars, callVars, concVars, cacheVars, tools, heap, tmu, mret>>

\* the command's process ends or is killed at the deadline; cmd.Wait goes on
\* waiting for the end of its output
E_Exit(g) ==
    /\ ex[g].pc = "running"
    /\ Exits(heap[ex[g].tool])
    /\ ex' = [ex EXCEPT ![g].pc = "draining"]
    /\ UNCHANGED <<disk, modelVars, callVars, concVars, cacheVars, tools, heap, tmu, mret>>

\* the output has come to the end: cmd.Wait, and with it
\* cmd.CombinedOutput(), returns
E_End(g) ==
    /\ ex[g].pc = "draining"
    /\ OutputCloses(heap[ex[g].tool])
    /\ ex' = [ex EXCEPT ![g].pc = "ended"]
    /\ UNCHANGED <<disk, modelVars, callVars, concVars, cacheVars, tools, heap, tmu, mret>>

\* the deferred t.mu.Unlock(); Execute returns
E_Unlock(g) ==
    /\ ex[g].pc = "ended"
    /\ tmu' = [tmu EXCEPT ![ex[g].tool] = 0]
    /\ ex' = [ex EXCEPT ![g] =
                 [pc |-> "idle", tool |-> 0, input |-> "",
                  ret |-> ExecuteResult(heap[ex[g].tool], ex[g].input)]]
    /\ UNCHANGED <<disk, modelVars, callVars, concVars, cacheVars, tools, heap, mret>>

ExecProgress(g) == E_Start(g) \/ E_Exit(g) \/ E_End(g) \/ E_Unlock(g)

ExecNext ==
    \/ \E c \in ExecConfigs : Len(heap) < MaxShared /\ NewToolCall(c)
    \/ \E g \in Executors, id \in 1..MaxTools : E_Call(g, id, TestInput)
    \/ \E g \in Executors : E_Lock(g)
    \/ \E g \in Executors : ExecProgress(g)

\* the Tools are made and executed beside an analyzer that no step here
\* touches: its repository is fixed
ExecInit == FirstInit /\ disk = "empty"

\* a goroutine that can go on does; one waiting in Lock gets the mutex if it
\* is free again and again (sync.Mutex hands a starving waiter the lock);
\* these steps change ex, so toolVars tells them from stuttering
ExecSpec ==
    /\ ExecInit
    /\ [][ExecNext]_vars
    /\ \A g \in Executors :
           WF_toolVars(ExecProgress(g)) /\ SF_toolVars(E_Lock(g))

\* ------------------------------------------------------------------------
\* Tool.Execute, called by one goroutine with any input
\* ------------------------------------------------------------------------

\* the command Execute builds: exec.CommandContext(ctx, t.config.Command,
\* t.config.Args...) and one "k=v" in cmd.Env for every entry of t.config.Env
CommandLine(config, input) ==
    [Path |-> config.Command,
     Args |-> config.Args,
     Env  |-> {k \o "=" \o config.Env[k] : k \in DOMAIN config.Env}]

\* Execute(ctx, input) on Tool id runs from its Lock to its Unlock and
\* returns: the call names the Tool, the input and the command that ran
ExecuteCall(id, input) ==
    /\ id \in 1..Len(heap)
    /\ MutexFree(tmu, id)
    /\ Returns(heap[id])
    /\ call' = Returned("Execute",
                        [tool |-> id, input |-> input,
                         ran |-> CommandLine(heap[id], input)],
                        ExecuteResult(heap[id], input))
    /\ prev' = IF call.op = "Execute" THEN call ELSE NoCall
    /\ UNCHANGED <<disk, modelVars, concVars, cacheVars, toolVars>>

InputNext ==
    \/ \E c \in ExecConfigs \cup MoreConfigs : NewToolCall(c)
    \/ \E id \in 1..MaxTools, i \in ExecInputs : ExecuteCall(id, i)

InputSpec == ExecInit /\ [][InputNext]_vars

\* ------------------------------------------------------------------------
\* Properties
\* ------------------------------------------------------------------------

\* the object a returned descriptor describes: the one of its name in the
\* scope of its owning package
Described(d) == ScopeLookup(pkgs[d.Package], d.Name)

\* the names in the method set of the object's type or of a pointer to it
MethodNames(obj) ==
    {obj.vmset[i].name : i \in 1..Len(obj.vmset)}
        \cup {obj.pmset[i].name : i \in 1..Len(obj.pmset)}

ExactlyOnePerName(methods, obj) ==
    \A n \in MethodNames(obj) :
        Cardinality({i \in 1..Len(methods) : methods[i].Name = n}) = 1

\* C1: for every type and every method name in the method set of the type or
\* of a pointer to it, the methods LookupType returns for that type, and the
\* methods ListMethods returns for its name, hold exactly one descriptor of
\* that name.
C1_OneDescriptorPerMethodName ==
    /\ (call.op = "LookupType" /\ call.err = "nil")
           => ExactlyOnePerName(call.val.Methods, Described(call.val))
    /\ (call.op = "ListMethods" /\ call.err = "nil")
           => \E p \in DOMAIN pkgs :
                  /\ ScopeLookup(pkgs[p], call.arg).cat # "nil"
                  /\ ExactlyOnePerName(call.val, ScopeLookup(pkgs[p], call.arg))

\* ListMethods("Circle") has returned: String and area are in both method
\* sets of Circle, Area only in that of *Circle
C1_Witness ==
    /\ call.op = "ListMethods"
    /\ call.arg = nCircle
    /\ call.err = "nil"
    /\ Len(call.val) = 3
    /\ \E i \in 1..3 : call.val[i].Name = nString

\* C2: two successive LookupType calls with the same name, with no Refresh
\* and no Close between them, return the same descriptor (or the same error).
C2_LookupTypeIdempotent ==
    (call.op = "LookupType" /\ prev.op = "LookupType" /\ prev.arg = call.arg)
        => (call.err = prev.err /\ call.val = prev.val)

\* C3: whatever a LookupType goroutine has read of the model, it read while
\* no Refresh was between its teardown and its end (the generation was even),
\* and it read initialized and pkgs in the same generation; no reader is
\* between its RLock and its RUnlock while the model is being rebuilt.
C3_ReadersSeeWholeModel ==
    \A p \in Readers :
        /\ rd[p].genInit # -1 => rd[p].genInit % 2 = 0
        /\ rd[p].genPkgs # -1 =>
               (rd[p].genPkgs % 2 = 0 /\ rd[p].genPkgs = rd[p].genInit)
        /\ pc[p] \in {"check", "scan", "runlock"} => gen % 2 = 0

\* a reader holds a result it computed from the rebuilt model while the next
\* Refresh waits for it and another reader waits for that Refresh
C3_Witness ==
    \E p, q \in Readers :
        /\ pc[p] = "runlock"
        /\ rd[p].genPkgs = 2
        /\ ReturnValue(p).err = "nil"
        /\ ReturnValue(p).val.Package = "main"
        /\ rw.writer = "pending"
        /\ pc[q] = "blocked"

\* C4: a Refresh that was called eventually gets the exclusive lock and
\* eventually returns, and every LookupType that was called eventually
\* returns.
C4_RefreshAndLookupsComplete ==
    /\ (pc[Writer] = "lock") ~> (rw.writer = "held")
    /\ (rw.writer = "held") ~> (pc[Writer] = "idle")
    /\ \A p \in Readers : (pc[p] = "rlock") ~> (pc[p] = "idle")

\* Refresh has called Lock while both readers hold the read lock
C4_Witness ==
    /\ rw.writer = "pending"
    /\ rw.readers = Readers

QueryOps == {"LookupType", "ListMethods", "SearchTypes", "GetExample",
             "AnalyzeRepository", "GetPackageInfo"}

\* C5: a query on a model that is not initialized returns the NotInitialized
\* error and no data.
C5_QueriesFailWhenNotInitialized ==
    (call.op \in QueryOps /\ ~initialized)
        => (call.err = ErrNotInitialized /\ call.val = <<>>)

Declares(typeName) ==
    \E p \in DOMAIN pkgs : ScopeLookup(pkgs[p], typeName).cat # "nil"

\* C6: on an initialized model LookupType(name) and ListMethods(name) fail
\* with NotFound exactly when no package declares name and succeed when one
\* does, and ListMethods(name) is the Methods of LookupType(name).
C6_NotFoundAndListMethods ==
    (call.op \in {"LookupType", "ListMethods"} /\ initialized) =>
        /\ call.err = ErrNotFound <=> ~Declares(call.arg)
        /\ Declares(call.arg) => call.err = "nil"
        /\ (call.op = "ListMethods" /\ call.err = "nil") =>
               \A order \in RangeOrders(pkgs) :
                   call.val = LookupType(Analyzer, order, call.arg).val.Methods

\* the (package, name) of every TypeName whose name contains query, ignoring
\* case
MatchingTypes(query) ==
    UNION {{<<p, pkgs[p][i].name>> :
               i \in {k \in 1..Len(pkgs[p]) :
                         /\ pkgs[p][k].cat = "type"
                         /\ Contains(ToLower(pkgs[p][k].name), ToLower(query))}} :
           p \in DOMAIN pkgs}

\* C7: SearchTypes(query) returns a descriptor of every type whose name
\* contains query (ignoring case), each describing that type, and of no other.
C7_SearchReturnsTheMatches ==
    (call.op = "SearchTypes" /\ initialized) =>
        /\ call.err = "nil"
        /\ {<<call.val[i].Package, call.val[i].Name>> : i \in 1..Len(call.val)}
               = MatchingTypes(call.arg)
        /\ \A i \in 1..Len(call.val) :
               Ok(call.val[i]) = DescribeObject(Analyzer, call.val[i].Package,
                                                call.val[i].Name, Described(call.val[i]))

NoTwoAlike(types) ==
    \A i, j \in 1..Len(types) :
        (types[i].Package = types[j].Package /\ types[i].Name = types[j].Name)
            => i = j

\* C8: no two descriptors of one SearchTypes result, or of the Types of one
\* AnalyzeRepository result, have the same (owning package, name).
C8_NoTypeTwice ==
    /\ (call.op = "SearchTypes" /\ call.err = "nil") => NoTwoAlike(call.val)
    /\ (call.op = "AnalyzeRepository" /\ call.err = "nil")
           => NoTwoAlike(call.val.Types)

\* C9: the Fields of the descriptor LookupType returns for a struct type are
\* its declared fields, one entry each and in order, an embedded field being
\* one entry marked Embedded.
C9_FieldsAreTheDeclaredFields ==
    (call.op = "LookupType" /\ call.err = "nil"
        /\ Described(call.val).under = "struct") =>
        LET declared == Described(call.val).fields
            got      == call.val.Fields
        IN  /\ Len(got) = Len(declared)
            /\ \A i \in 1..Len(declared) :
                   /\ got[i].Name = declared[i].name
                   /\ got[i].Type = declared[i].type
                   /\ got[i].Tag = declared[i].tag
                   /\ got[i].Exported = IsUpper(declared[i].name[1])
                   /\ got[i].Embedded = declared[i].embedded

\* LookupType("UserAccount") has returned: ID, then the embedded *Circle
C9_Witness ==
    /\ call.op = "LookupType"
    /\ call.arg = nUserAccount
    /\ call.err = "nil"
    /\ call.val.Kind = "struct"
    /\ Len(call.val.Fields) = 2
    /\ call.val.Fields[1].Name = nID
    /\ call.val.Fields[2].Embedded

\* C10: the Methods of every descriptor LookupType returns are in ascending
\* byte-wise order of their names.
C10_MethodsSortedByName ==
    (call.op = "LookupType" /\ call.err = "nil") =>
        \A i, j \in 1..Len(call.val.Methods) :
            i < j => ~StrLess(call.val.Methods[j].Name, call.val.Methods[i].Name)

\* LookupType("Circle") has returned Area, String, area: the upper-case
\* names first
C10_Witness ==
    /\ call.op = "LookupType"
    /\ call.arg = nCircle
    /\ call.err = "nil"
    /\ Len(call.val.Methods) = 3
    /\ call.val.Methods[1].Name = nArea
    /\ call.val.Methods[3].Name = nLowerArea

\* C11: a Refresh whose rebuild fails returns the error and leaves the model
\* not initialized; on a model that is not initialized LookupType and
\* AnalyzeRepository return NotInitialized; and the model becomes initialized
\* again only by a Refresh that succeeds.
C11_FailedRefreshLeavesNotInitialized ==
    [][/\ (RefreshCall /\ disk = Missing)
              => (call'.err = ErrParse /\ ~initialized')
       /\ (call'.op = "Refresh" /\ call'.err # "nil") => ~initialized'
       /\ (~initialized' /\ call'.op \in {"LookupType", "AnalyzeRepository"})
              => (call'.err = ErrNotInitialized /\ call'.val = <<>>)
       /\ (~initialized /\ initialized')
              => (call'.op = "Refresh" /\ call'.err = "nil")]_vars

\* Refresh has just failed on a repository that was removed after a model
\* with packages had been built: the old model is gone
C11_Witness ==
    /\ call.op = "Refresh"
    /\ call.err = ErrParse
    /\ disk = Missing
    /\ ~initialized
    /\ DOMAIN pkgs = {}
    /\ DOMAIN docPkgs = {}

\* C12: Close returns nil and leaves the model not initialized; a Close that
\* follows a Close changes nothing, and closing the closed model gives the
\* closed model, so every later operation answers as after one Close.
C12_CloseIdempotent ==
    [][CloseCall =>
          /\ call'.err = "nil"
          /\ ~initialized'
          /\ Close(Close(Analyzer)) = Close(Analyzer)
          /\ call.op = "Close" => UNCHANGED <<disk, modelVars>>]_vars

\* Close has returned twice in a row on a model that holds packages
C12_Witness ==
    /\ call.op = "Close"
    /\ prev.op = "Close"
    /\ call.err = "nil"
    /\ prev.err = "nil"
    /\ ~initialized
    /\ DOMAIN pkgs # {}

\* C13: AnalyzeRepository on an initialized model without packages (the
\* repository holds no source file) returns no error, empty Types, Functions,
\* Variables, Constants and Packages, and counts of zero.
C13_EmptyRepositoryAnalyzesToNothing ==
    (call.op = "AnalyzeRepository" /\ initialized /\ DOMAIN pkgs = {}) =>
        /\ call.err = "nil"
        /\ call.val.Types = <<>>
        /\ call.val.Functions = <<>>
        /\ call.val.Variables = <<>>
        /\ call.val.Constants = <<>>
        /\ call.val.Packages = <<>>
        /\ call.val.Metrics.TotalTypes = 0
        /\ call.val.Metrics.TotalFunctions = 0
        /\ call.val.Metrics.TotalPackages = 0

\* AnalyzeRepository has returned on the model built over the empty
\* repository
C13_Witness ==
    /\ call.op = "AnalyzeRepository"
    /\ call.err = "nil"
    /\ initialized
    /\ DOMAIN pkgs = {}
    /\ DOMAIN files = {}

\* C14: the response of lookupTypeHandler, listMethodsHandler and
\* showExampleHandler is one a direct LookupType, ListMethods or GetExample
\* call on the analyzer gives at that moment: the same value or the same
\* error.
C14_CacheNeverChangesTheAnswer ==
    /\ call.op = "lookupTypeHandler" =>
           \E order \in RangeOrders(pkgs) :
               LET r == LookupType(Analyzer, order, call.arg)
               IN  /\ call.err = r.err
                   /\ r.err = "nil" => call.val = JsonText(r.val)
    /\ call.op = "listMethodsHandler" =>
           \E order \in RangeOrders(pkgs) :
               LET r == ListMethods(Analyzer, order, call.arg)
               IN  /\ call.err = r.err
                   /\ r.err = "nil" => call.val = JsonText(r.val)
    /\ call.op = "showExampleHandler" =>
           \E order \in RangeOrders(docPkgs) :
               LET r == GetExample(Analyzer, order, call.arg)
               IN  /\ call.err = r.err
                   /\ r.err = "nil" => call.val = r.val

\* C15: when the Cache.Set a handler makes returns an error, the handler
\* returns no error and the response it builds from what the analyzer gave
\* it, the one it returns when the write succeeds; the entry is in the cache
\* all the same.
C15_CacheWriteFailureNotPropagated ==
    [][\A h \in Handlers :
          (hd[h].pc = "set" /\ hd'[h].pc = "idle" /\ setErr' = ErrSave) =>
              /\ call'.op = hd[h].op
              /\ call'.arg = hd[h].name
              /\ call'.err = "nil"
              /\ call'.val = Respond(hd[h].op, hd[h].val).val
              /\ KeyOf(hd[h].op, hd[h].name) \in DOMAIN cache'
      ]_vars

\* lookupTypeHandler has answered with the descriptor although the write of
\* its cache entry failed; the entry is in the cache all the same
C15_Witness ==
    /\ call.op = "lookupTypeHandler"
    /\ setErr = ErrSave
    /\ call.err = "nil"
    /\ call.val.of.Name = nConfig
    /\ CacheKey(pfxType, nConfig) \in DOMAIN cache

\* the step is a Cache.Set of key, a Cache.Get of key, a Cache.Clear
SetStep(key) == call'.op = "Cache.Set" /\ now' = now /\ call'.arg.key = key
GetStep(key) == call'.op = "Cache.Get" /\ now' = now /\ call'.arg = key
ClearStep    == call'.op = "Cache.Clear" /\ now' = now

\* C16: Set(k, v, ttl) with ttl > 0 stores v with the expiry time now + ttl;
\* the entry stays as it is until the next Set of k or Clear; and a Get of k
\* returns (v, true) at every instant before the expiry time and (nil, false)
\* at every instant after it.
C16_EntryLivesUntilItsExpiry ==
    [][\A k \in CacheKeys :
          /\ (SetStep(k) /\ call'.arg.duration > 0) =>
                 /\ k \in DOMAIN cache'
                 /\ cache'[k].Value = call'.arg.value
                 /\ cache'[k].Expiration = now + call'.arg.duration
          /\ (k \in DOMAIN cache /\ ~SetStep(k) /\ ~ClearStep) =>
                 /\ k \in DOMAIN cache'
                 /\ cache'[k] = cache[k]
          /\ (GetStep(k) /\ k \in DOMAIN cache /\ cache[k].Expiration > 0) =>
                 /\ now < cache[k].Expiration =>
                        call'.val = [value |-> cache[k].Value, found |-> TRUE]
                 /\ now > cache[k].Expiration =>
                        call'.val = [value |-> NilValue, found |-> FALSE]
      ]_vars

\* Get has reported not-found for a key whose entry is still in c.data, past
\* its expiry time
C16_Witness ==
    /\ call.op = "Cache.Get"
    /\ call.arg \in DOMAIN cache
    /\ cache[call.arg].Expiration > 0
    /\ cache[call.arg].Expiration < now
    /\ ~call.val.found

\* C17: Clear leaves no entry, so that Get reports not-found for every key at
\* every instant; a key comes back only by a Set of it; and a Get of a key
\* that has no entry reports not-found.
C17_ClearForgetsEverything ==
    [][\A k \in CacheKeys :
          /\ ClearStep =>
                 /\ DOMAIN cache' = {}
                 /\ \A t \in 1..MaxTime : ~CacheGet(cache', k, t).found
          /\ (k \notin DOMAIN cache /\ ~SetStep(k)) => k \notin DOMAIN cache'
          /\ (GetStep(k) /\ k \notin DOMAIN cache) =>
                 call'.val = [value |-> NilValue, found |-> FALSE]
      ]_vars

\* Clear has returned right after a Set that stored an entry without expiry
C17_Witness ==
    /\ call.op = "Cache.Clear"
    /\ prev.op = "Cache.Set"
    /\ prev.arg.duration = 0
    /\ DOMAIN cache = {}
    /\ \A k \in CacheKeys : ~CacheGet(cache, k, now).found

\* C18: on an initialized model GetExample(topic), for a topic that is the
\* name of a declared type, returns a non-empty example and no error.
C18_DeclaredTypesHaveExamples ==
    (/\ call.op = "GetExample"
     /\ initialized
     /\ \E p \in DOMAIN pkgs : ScopeLookup(pkgs[p], call.arg).cat = "type")
        => (call.err = "nil" /\ call.val # <<>>)

\* the goroutines whose command runs on Tool id
Running(id) ==
    {g \in Executors : ex[g].tool = id /\ ex[g].pc \in {"running", "draining"}}

\* C19: at most one command of a Tool runs at any instant; every Execute
\* that was called on a Tool whose command cannot be started, or whose
\* command ends by itself or runs under a positive Timeout and in either
\* case leaves no process behind that keeps its output open, returns; and
\* an Execute whose command is an echo returns what it printed and no error.
C19_ExecuteSerializedAndReturns ==
    /\ [](\A id \in 1..Len(heap) : Cardinality(Running(id)) <= 1)
    /\ \A g \in Executors :
           (/\ ex[g].pc = "lock"
            /\ \/ ~CanStart(heap[ex[g].tool])
               \/ /\ Ends(heap[ex[g].tool]) \/ heap[ex[g].tool].Timeout > 0
                  /\ ~Orphans(heap[ex[g].tool]))
               ~> (ex[g].pc = "idle")
    /\ [][\A g \in Executors :
             (/\ ex[g].pc = "ended"
              /\ ex'[g].pc = "idle"
              /\ heap[ex[g].tool].Command = "echo")
                 => ex'[g].ret = Output(Printed(heap[ex[g].tool]))]_vars

\* C19 as stated: every Execute that was called returns, whatever the
\* command and the configuration of its Tool.
C19_EveryExecuteReturns ==
    \A g \in Executors : (ex[g].pc = "lock") ~> (ex[g].pc = "idle")

\* one goroutine's command runs while every other goroutine waits for the
\* mutex of the same Tool
C19_Witness ==
    \E g \in Executors :
        /\ ex[g].pc = "running"
        /\ \A h \in Executors \ {g} :
               ex[h].pc = "lock" /\ ex[h].tool = ex[g].tool

\* the names registered so far, and the Tool made last for a name
Registered == {heap[i].Name : i \in 1..Len(heap)}
LastMade(name) ==
    CHOOSE i \in 1..Len(heap) :
        /\ heap[i].Name = name
        /\ \A j \in 1..Len(heap) : heap[j].Name = name => j <= i

\* C20: GetTool(n) reports found exactly for the names registered, and then
\* returns the Tool made from the config registered last under n; ListTools
\* returns every registered name once and no other name.
C20_ManagerKnowsWhatWasRegistered ==
    /\ mret.op = "GetTool" =>
           /\ mret.ok <=> mret.name \in Registered
           /\ mret.ok => mret.tool = LastMade(mret.name)
    /\ mret.op = "ListTools" =>
           /\ {mret.names[i] : i \in 1..Len(mret.names)} = Registered
           /\ Len(mret.names) = Cardinality(Registered)

\* GetTool("echo_test") has returned the second of two Tools registered
\* under that name
C20_Witness ==
    /\ mret.op = "GetTool"
    /\ mret.name = "echo_test"
    /\ Len(heap) >= 2
    /\ heap[1].Name = "echo_test"
    /\ heap[2].Name = "echo_test"
    /\ heap[1] # heap[2]
    /\ mret.ok
    /\ mret.tool = 2

\* the selections of a method set that carry the name
Selections(mset, name) == {j \in 1..Len(mset) : mset[j].name = name}

\* C21: in the Methods LookupType returns, a method whose name is in the
\* method set of the type itself carries the indirect flag of that selection,
\* whether or not the method set of the pointer type has the name too; a
\* method whose name is only in the method set of the pointer type carries
\* IsPointer = TRUE; and every name of either method set is retained.
C21_MergeKeepsValueFormFlag ==
    (call.op = "LookupType" /\ call.err = "nil") =>
        LET obj == Described(call.val)
            ms  == call.val.Methods
        IN  /\ \A i \in 1..Len(ms) :
                   IF Selections(obj.vmset, ms[i].Name) # {}
                   THEN \E j \in Selections(obj.vmset, ms[i].Name) :
                            /\ ms[i].IsPointer = obj.vmset[j].indirect
                            /\ ms[i].Receiver = obj.vmset[j].recv
                   ELSE /\ ~obj.isPtr
                        /\ Selections(obj.pmset, ms[i].Name) # {}
                        /\ ms[i].IsPointer = TRUE
            /\ \A j \in 1..Len(obj.vmset) :
                   \E i \in 1..Len(ms) : ms[i].Name = obj.vmset[j].name
            /\ ~obj.isPtr =>
                   \A j \in 1..Len(obj.pmset) :
                       \E i \in 1..Len(ms) : ms[i].Name = obj.pmset[j].name

\* LookupType("Circle") has returned: Area, declared on *Circle, is in the
\* pointer-form pass only and String in both
C21_Witness ==
    /\ call.op = "LookupType"
    /\ call.arg = nCircle
    /\ call.err = "nil"
    /\ \E i, k \in 1..Len(call.val.Methods) :
           /\ call.val.Methods[i].Name = nArea
           /\ call.val.Methods[i].IsPointer
           /\ call.val.Methods[k].Name = nString
           /\ ~call.val.Methods[k].IsPointer

\* C22: the Methods of a descriptor LookupType returns for a type whose
\* underlying shape is an interface are the ones analyzeInterfaceMethods
\* built from the interface's own method list.
C22_InterfaceMethodsNotOverwritten ==
    (call.op = "LookupType" /\ call.err = "nil" /\ call.val.Kind = "interface")
        => call.val.Methods = AnalyzeInterfaceMethods(Described(call.val).imethods)

\* the entries of a result sequence that carry package p and the name
EntriesOf(entries, p, name) ==
    {i \in 1..Len(entries) : entries[i].Package = p /\ entries[i].Name = name}

\* the sequence of an AnalyzeRepository result an object's entry belongs to
CategoryOf(result, obj) ==
    CASE obj.cat = "type"  -> result.Types
      [] obj.cat = "func"  -> result.Functions
      [] obj.cat = "var"   -> result.Variables
      [] obj.cat = "const" -> result.Constants

\* the top-level declarations of a class in the analyzed packages
DeclaredAs(cat) ==
    {<<p, i>> \in (DOMAIN pkgs) \X (1..8) :
        i <= Len(pkgs[p]) /\ pkgs[p][i].cat = cat}

\* C23: a result of AnalyzeRepository holds, for every top-level declaration
\* of every package, exactly one entry with that package and that name in the
\* sequence of the declaration's class, and no other entry.
C23_OneEntryPerDeclaration ==
    (call.op = "AnalyzeRepository" /\ call.err = "nil") =>
        /\ \A p \in DOMAIN pkgs : \A i \in 1..Len(pkgs[p]) :
               Cardinality(EntriesOf(CategoryOf(call.val, pkgs[p][i]), p,
                                     pkgs[p][i].name)) = 1
        /\ Len(call.val.Types) = Cardinality(DeclaredAs("type"))
        /\ Len(call.val.Functions) = Cardinality(DeclaredAs("func"))
        /\ Len(call.val.Variables) = Cardinality(DeclaredAs("var"))
        /\ Len(call.val.Constants) = Cardinality(DeclaredAs("const"))

\* C24: in a result of AnalyzeRepository the metrics are the lengths of the
\* sequences, Packages holds exactly one entry per analyzed package, and
\* IsMain is true exactly in the entry of the package named main.
C24_MetricsCountTheSequences ==
    (call.op = "AnalyzeRepository" /\ call.err = "nil") =>
        /\ call.val.Metrics.TotalTypes = Len(call.val.Types)
        /\ call.val.Metrics.TotalFunctions = Len(call.val.Functions)
        /\ call.val.Metrics.TotalPackages = Len(call.val.Packages)
        /\ Len(call.val.Packages) = Cardinality(DOMAIN pkgs)
        /\ \A p \in DOMAIN pkgs :
               Cardinality({i \in 1..Len(call.val.Packages) :
                                call.val.Packages[i].Name = p}) = 1
        /\ \A i \in 1..Len(call.val.Packages) :
               call.val.Packages[i].IsMain <=> (call.val.Packages[i].Name = "main")

\* AnalyzeRepository has returned for the repository of two packages, one of
\* them main
C24_Witness ==
    /\ call.op = "AnalyzeRepository"
    /\ call.err = "nil"
    /\ call.val.Metrics.TotalPackages = 2
    /\ call.val.Metrics.TotalTypes = 3
    /\ call.val.Metrics.TotalFunctions = 1
    /\ \E i \in 1..2 : call.val.Packages[i].IsMain

\* C26: SearchTypes and AnalyzeRepository never deadlock with a concurrent
\* Refresh or Close: every SearchTypes and AnalyzeRepository that was called
\* comes to its end (it returns, or it panics, or the process ends), and
\* every Refresh and Close that was called gets the exclusive lock and
\* returns unless the process ends first.
C26_NestedReadLockNeverDeadlocks ==
    /\ \A p \in Readers :
           (pc[p] = "n_rlock") ~> (pc[p] \in {"idle", "panicked", "exited"})
    /\ (pc[Writer] \in {"lock", "k_lock"}) ~> (pc[Writer] \in {"idle", "exited"})

\* the repositories a freshly built analyzer with this model was built from
BuiltFrom(a) == {d \in RepoIds : NewAnalyzer(d).a = a}

\* the result r is one LookupType(name) can return on the analyzer a
LookupTypeGives(a, name, r) ==
    \E o \in RangeOrders(a.pkgs) :
        LET f == LookupType(a, o, name)
        IN  f.err = r.err /\ f.val = r.val

\* the result r is one AnalyzeRepository can return on the analyzer a
AnalyzeRepositoryGives(a, r) ==
    \E os \in AnalyzeOrderChoices(a) :
        LET f == AnalyzeRepository(a, os)
        IN  f.err = r.err /\ f.val = r.val

\* C27: a Refresh that follows a Close and finds the repository in place
\* returns nil and leaves the model initialized and equal to that of an
\* analyzer freshly built from the repository; a LookupType or an
\* AnalyzeRepository that comes next ends as it can end on that freshly
\* built analyzer (the same descriptor or result, or the same failure), and
\* never with NotInitialized.
C27_RefreshRevivesClosedAnalyzer ==
    [][/\ (RefreshCall /\ call.op = "Close" /\ disk # Missing) =>
              /\ call'.err = "nil"
              /\ initialized'
              /\ NewAnalyzer(disk).a =
                     [pkgs |-> pkgs', docPkgs |-> docPkgs', files |-> files',
                      initialized |-> initialized']
       /\ (/\ call.op = "Refresh" /\ call.err = "nil" /\ prev.op = "Close"
           /\ call'.op = "LookupType") =>
              /\ call'.err # ErrNotInitialized
              /\ \E d \in BuiltFrom(Analyzer) :
                     LookupTypeGives(NewAnalyzer(d).a, call'.arg, call')
       /\ (/\ call.op = "Refresh" /\ call.err = "nil" /\ prev.op = "Close"
           /\ call'.op = "AnalyzeRepository") =>
              /\ call'.err # ErrNotInitialized
              /\ \E d \in BuiltFrom(Analyzer) :
                     AnalyzeRepositoryGives(NewAnalyzer(d).a, call')]_vars

\* Refresh has returned nil right after a Close, on a repository with
\* packages: the model is initialized again
C27_Witness ==
    /\ call.op = "Refresh"
    /\ call.err = "nil"
    /\ prev.op = "Close"
    /\ initialized
    /\ DOMAIN pkgs = {"config", "main"}

\* C28: two Execute calls on Tools of the same configuration, whatever their
\* inputs, run the same command with the same arguments and environment and
\* return the same output and error; the command that runs is the one of
\* the configuration, and what Execute returns is what it returns on the
\* empty input.
C28_ExecuteIgnoresInput ==
    /\ (call.op = "Execute" /\ prev.op = "Execute"
        /\ heap[call.arg.tool] = heap[prev.arg.tool]) =>
           /\ call.arg.ran = prev.arg.ran
           /\ call.err = prev.err
           /\ call.val = prev.val
    /\ call.op = "Execute" =>
           /\ call.arg.ran.Path = heap[call.arg.tool].Command
           /\ call.arg.ran.Args = heap[call.arg.tool].Args
           /\ call.err = ExecuteResult(heap[call.arg.tool], TestInput).err
           /\ call.val = ExecuteResult(heap[call.arg.tool], TestInput).val

\* two Execute calls on the echo Tool have returned their output, the first
\* with a query as input and the second with a file and its changes
C28_Witness ==
    /\ call.op = "Execute"
    /\ prev.op = "Execute"
    /\ heap[call.arg.tool] = heap[prev.arg.tool]
    /\ heap[call.arg.tool].Command = "echo"
    /\ prev.arg.input = "query"
    /\ call.arg.input = "main.go\n+ line"
    /\ call.err = "nil"
    /\ call.val = "test\n"
    /\ call.arg.ran.Env = {"MODE=test"}

\* the classes of the top-level declarations called name in the packages
ClassesOf(name) ==
    {ScopeLookup(pkgs[p], name).cat : p \in DOMAIN pkgs} \ {"nil"}

\* C29: LookupType(name) returns a descriptor only when some package declares
\* name as a named type, and NotFound when every declaration called name is a
\* function, a variable or a constant; the descriptor it returns describes a
\* named type.
C29_OnlyTypesAreDescribed ==
    (call.op = "LookupType" /\ initialized) =>
        /\ call.err = "nil" => "type" \in ClassesOf(call.arg)
        /\ call.err = "nil" => Described(call.val).cat = "type"
        /\ (ClassesOf(call.arg) # {} /\ "type" \notin ClassesOf(call.arg))
               => call.err = ErrNotFound

\* C30: a handler that is called while the cache holds an unexpired entry
\* of its own making under its key for the name (a value of the type the
\* handler stores) returns in that step, with the entry's content and no
\* error, and does not go on to the analyzer.
C30_HandlersAnswerFromCache ==
    [][\A h \in Handlers, op \in HandlerOps, n \in HandlerNames :
         LET got == CacheGet(cache, KeyOf(op, n), now)
             own == got.found /\ got.value.type = StoredType(op)
         IN  /\ (own /\ hd[h].pc = "idle" /\ hd'[h].pc # "idle")
                    => ~(hd'[h].op = op /\ hd'[h].name = n)
             /\ (/\ own
                 /\ call'.op = op /\ call'.arg = n
                 /\ now' = now /\ disk' = disk
                 /\ \A g \in Handlers : hd[g].pc = "idle" /\ hd'[g].pc = "idle")
                    => /\ call'.err = "nil"
                       /\ call'.val = Respond(op, got.value.v).val
                       /\ cache' = cache]_vars

\* the named types AnalyzeRepository visits in the analyzed packages
TypesVisited == Cardinality(DeclaredAs("type"))

\* C25: AnalyzeRepository on an initialized analyzer always returns a result
\* (no declaration makes it fail or end abnormally), and every named type it
\* visited is accounted for in the result: described in Types, or listed in
\* Errors or Warnings.
C25_FailuresAreListedNotFatal ==
    (call.op = "AnalyzeRepository" /\ initialized) =>
        /\ call.err = "nil"
        /\ Len(call.val.Types) + Len(call.val.Errors) + Len(call.val.Warnings)
               = TypesVisited

====
